---- MODULE Spec2Model ----
(***************************************************************************)
(* Cartesian (2-D grid) vertex-cut partitioner of DistGraphCartesianCut    *)
(* (libdist/include/galois/graphs/DistributedGraph_CartesianCut.h).        *)
(*                                                                         *)
(* One process per real host.  Every host runs the constructor:            *)
(*   loadStatistics (inspection, metadata exchange, layout),               *)
(*   loadEdges (loadEdgesFromFile, receiveEdges), fillMirrorNodes,         *)
(* and finally the runtime exchanges mirrorNodes into masterNodes.         *)
(* The edge-data instantiation is modelled; the payload of an edge is its  *)
(* position in the global file, so every edge occurrence is identifiable.  *)
(***************************************************************************)
EXTENDS Integers, Sequences, FiniteSets, Bags, TLC

(***************************************************************************)
(* Bounds of the model.                                                    *)
(***************************************************************************)
MaxDecomposeFactor == 2
MaxThreads == 2
MaxVirtualHosts == 4
MaxSkewedHosts == 2
MaxFactorizedHosts == 12
MaxNetHosts == 2         \* Num of the buffered network interface
MaxMessages == 2         \* calls of send() on the buffered network interface

(***************************************************************************)
(* Generic helpers.                                                        *)
(***************************************************************************)
\* f(lo) + f(lo + 1) + ... + f(hi - 1)
RECURSIVE SumOver(_, _, _)
SumOver(f(_), lo, hi) == IF lo >= hi THEN 0 ELSE f(lo) + SumOver(f, lo + 1, hi)

\* f(lo) \o f(lo + 1) \o ... \o f(hi - 1)
RECURSIVE ConcatOver(_, _, _)
ConcatOver(f(_), lo, hi) ==
  IF lo >= hi THEN <<>> ELSE f(lo) \o ConcatOver(f, lo + 1, hi)

\* the ascending sequence a, a+1, ..., b-1
RangeSeq(a, b) == [k \in 1..(IF b > a THEN b - a ELSE 0) |-> a + k - 1]

SeqToSet(s) == {s[k] : k \in 1..Len(s)}

(***************************************************************************)
(* Inputs of a build.  They are fixed at construction.                     *)
(***************************************************************************)
VARIABLES
  numHosts,              \* base_DistGraph::numHosts
  DecomposeFactor,       \* template parameter
  columnBlocked,         \* template parameter (checkerboard)
  moreColumnHosts,       \* template parameter
  transpose,             \* constructor argument
  numGlobalNodes,        \* g.size()
  edgeList,              \* the global file: sequence of <<src, dst>>, by src
  gid2host,              \* base_DistGraph::gid2host: virtual host -> <<start,end>>
  edgePartitionSendBufSize,
  numRowHosts,           \* set by factorizeHosts
  numColumnHosts,        \* set by factorizeHosts
  numVirtualHosts        \* set by factorizeHosts

inputs == <<numHosts, DecomposeFactor, columnBlocked, moreColumnHosts,
            transpose, numGlobalNodes, edgeList, gid2host,
            edgePartitionSendBufSize, numRowHosts, numColumnHosts,
            numVirtualHosts>>

(***************************************************************************)
(* State of the hosts.                                                     *)
(***************************************************************************)
VARIABLES
  pc,                    \* position of every host in the constructor
  evilPhase,             \* galois::runtime::evilPhase of every host
  net,                   \* net[to][from]: FIFO of tagged buffers in flight
  numOutgoingEdges,      \* [h][d][i] : vector over the sources of range d
  hasIncomingEdge,       \* [h][i]    : set of set bits
  metaReceived,          \* loop counter of the metadata receive loop
  index,                 \* per host: localToGlobalVector, globalToLocalMap,
                         \* prefixSumOfEdges, numNodes, numEdges, numOwned,
                         \* beginMaster, dummyOutgoingNodes, numNodesWithEdges
  graph,                 \* per host: CSR edge slots, each the list of writes
  loaded,                \* per host: owned sources whose do_all body has run
  sb,                    \* per host, thread, column: outbound SendBuffer
  nodesWithEdgesCompleted, \* the atomic counter of loadEdges
  mirrorNodes,
  masterNodes,
  transposed,
  fault                  \* why a host aborted the build ("" while it runs)

hostState == <<pc, evilPhase, net, numOutgoingEdges, hasIncomingEdge,
               metaReceived, index, graph, loaded, sb,
               nodesWithEdgesCompleted, mirrorNodes, masterNodes, transposed,
               fault>>

(***************************************************************************)
(* The local graph file and the host that reads it back.                   *)
(***************************************************************************)
VARIABLES
  localGraphFile,        \* the archive boostSerializeLocalGraph wrote, and
                         \* the host that wrote it
  readBack               \* the fields of a fresh host after
                         \* boostDeSerializeLocalGraph

savedState == <<localGraphFile, readBack>>

(***************************************************************************)
(* The buffered network interface of one host                              *)
(* (src/exp/src/net/buffered.cpp): the object, its worker thread, the      *)
(* thread that constructs and destroys it, and the application threads     *)
(* that call handleReceives.                                               *)
(***************************************************************************)
VARIABLES
  ready,                 \* NetworkInterfaceBuffered::ready (atomic int)
  mainPc,                \* position of the constructing thread
  workerPc,              \* position of the worker thread, and its index i
  recvData,              \* recvBuffer::data: the deque of received bytes
  recvLock,              \* holder of recvLock, NoThread when free
  sendData,              \* per destination: data (bytes) and urgent
  wire,                  \* per destination: the vectors handed to netio
  reader,                \* per application thread: position in
                         \* handleReceives, the range p, the copy buf
  sentTo,                \* per destination: the messages passed to send()
  dispatched,            \* the buffers the receive functions were called on
  netFault               \* why the process crashed ("" while it runs)

bufferedState == <<ready, mainPc, workerPc, recvData, recvLock, sendData,
                   wire, reader, sentTo, dispatched, netFault>>

vars == <<inputs, hostState, savedState, bufferedState>>

Hosts == 0..(numHosts - 1)
Threads == 0..(MaxThreads - 1)

(***************************************************************************)
(* Grid.                                                                   *)
(***************************************************************************)
RECURSIVE sqrtFloor(_, _)
sqrtFloor(n, c) == IF (c + 1) * (c + 1) > n THEN c ELSE sqrtFloor(n, c + 1)

RECURSIVE largestDivisorFrom(_, _)
largestDivisorFrom(n, c) ==
  IF n % c = 0 THEN c ELSE largestDivisorFrom(n, c - 1)

\* factorizeHosts that keeps the truncated square root as the column count
factorizeHosts_sqrt(H, D, more) ==
  LET c0 == sqrtFloor(H, 1)
      r0 == H \div c0
      r1 == IF more THEN c0 ELSE r0
      c1 == IF more THEN r0 ELSE c0
  IN  [numVirtualHosts |-> H * D,
       numRowHosts     |-> r1 * D,
       numColumnHosts  |-> c1]

\* factorizeHosts: [numVirtualHosts, numRowHosts, numColumnHosts]
factorizeHosts(H, D, more) ==
  LET c0 == largestDivisorFrom(H, sqrtFloor(H, 1))
      r0 == H \div c0
      r1 == IF more THEN c0 ELSE r0
      c1 == IF more THEN r0 ELSE c0
  IN  [numVirtualHosts |-> H * D,
       numRowHosts     |-> r1 * D,
       numColumnHosts  |-> c1]

virtual2RealHost(v) == v % numHosts
gridRowID(id) == id \div numColumnHosts
gridColumnID(id) == id % numColumnHosts

rangeStart(v) == gid2host[v][1]
rangeEnd(v) == gid2host[v][2]
rangeSize(v) == rangeEnd(v) - rangeStart(v)

\* getHostID: the first virtual host whose range contains gid
RECURSIVE getHostIDFrom(_, _)
getHostIDFrom(gid, h) ==
  IF h >= numVirtualHosts THEN numHosts
  ELSE IF gid >= rangeStart(h) /\ gid < rangeEnd(h) THEN h
  ELSE getHostIDFrom(gid, h + 1)

getHostID(gid) == getHostIDFrom(gid, 0)

\* isOwned that looks at the first range of the host only
isOwned_firstRange(id, gid) ==
  gid >= rangeStart(id) /\ gid < rangeEnd(id)

isOwned(id, gid) ==
  \E d \in 0..(DecomposeFactor - 1) :
     /\ gid >= rangeStart(id + d * numHosts)
     /\ gid < rangeEnd(id + d * numHosts)

getBlockID(gid) == getHostID(gid) % numHosts

getColumnHostIDOfBlock(blockID) ==
  IF columnBlocked THEN blockID \div numRowHosts
  ELSE blockID % numColumnHosts

getColumnHostID(gid) == getColumnHostIDOfBlock(getBlockID(gid))

RECURSIVE getColumnIndexFrom(_, _, _, _, _)
getColumnIndexFrom(gid, blockID, h, b, columnIndex) ==
  IF b > blockID THEN columnIndex
  ELSE IF getColumnHostIDOfBlock(b) = h
       THEN IF gid < rangeEnd(b)
            THEN columnIndex + (gid - rangeStart(b))
            ELSE getColumnIndexFrom(gid, blockID, h, b + 1,
                                    columnIndex + rangeSize(b))
       ELSE getColumnIndexFrom(gid, blockID, h, b + 1, columnIndex)

getColumnIndex(gid) ==
  getColumnIndexFrom(gid, getBlockID(gid),
                     getColumnHostIDOfBlock(getBlockID(gid)), 0, 0)


(***************************************************************************)
(* SyncPolicy.                                                             *)
(***************************************************************************)
SyncTypes == {"syncReduce", "syncBroadcast"}
WriteLocations == {"writeSource", "writeDestination", "writeAny"}
ReadLocations == {"readSource", "readDestination", "readAny"}

sameRow(id, host) == gridRowID(id) = gridRowID(host)
sameColumn(id, host) == gridColumnID(id) = gridColumnID(host)

\* isNotCommunicationPartner that never looks at the orientation
isNotCommunicationPartner_untransposed(id, host, syncType, writeLocation, readLocation, isTransposed) ==
  IF syncType = "syncReduce"
  THEN CASE writeLocation = "writeSource" -> ~sameRow(id, host)
         [] writeLocation = "writeDestination" -> ~sameColumn(id, host)
         [] writeLocation = "writeAny" ->
              ~sameRow(id, host) /\ ~sameColumn(id, host)
  ELSE CASE readLocation = "readSource" -> ~sameRow(id, host)
         [] readLocation = "readDestination" -> ~sameColumn(id, host)
         [] readLocation = "readAny" ->
              ~sameRow(id, host) /\ ~sameColumn(id, host)

\* isNotCommunicationPartner, evaluated on host id about peer host; isTransposed
\* is base_DistGraph::transposed on id.  This is the value returned.  The
\* assert of the writeAny / readAny branches (same row or same column) is
\* reached only with a non-empty shared list and no checkerboard, where the
\* peer is always a grid neighbour; the invalidation of currentBVFlag in the
\* broadcast branches changes no variable of this model.
isNotCommunicationPartner(id, host, syncType, writeLocation, readLocation, isTransposed) ==
  IF isTransposed
  THEN IF syncType = "syncReduce"
       THEN CASE writeLocation = "writeSource" -> ~sameColumn(id, host)
              [] writeLocation = "writeDestination" -> ~sameRow(id, host)
              [] writeLocation = "writeAny" ->
                   ~sameRow(id, host) /\ ~sameColumn(id, host)
       ELSE CASE readLocation = "readSource" -> ~sameColumn(id, host)
              [] readLocation = "readDestination" -> ~sameRow(id, host)
              [] readLocation = "readAny" ->
                   ~sameRow(id, host) /\ ~sameColumn(id, host)
  ELSE IF syncType = "syncReduce"
       THEN CASE writeLocation = "writeSource" -> ~sameRow(id, host)
              [] writeLocation = "writeDestination" -> ~sameColumn(id, host)
              [] writeLocation = "writeAny" ->
                   ~sameRow(id, host) /\ ~sameColumn(id, host)
       ELSE CASE readLocation = "readSource" -> ~sameRow(id, host)
              [] readLocation = "readDestination" -> ~sameColumn(id, host)
              [] readLocation = "readAny" ->
                   ~sameRow(id, host) /\ ~sameColumn(id, host)

\* nothingToSend that stops at the emptiness test of the shared list
nothingToSend_listOnly(id, host, syncType, writeLocation, readLocation) ==
  LET sharedNodes == IF syncType = "syncReduce"
                     THEN mirrorNodes[id] ELSE masterNodes[id]
  IN  ~(Len(sharedNodes[host]) > 0)

\* nothingToSend evaluated on host id about peer host
nothingToSend(id, host, syncType, writeLocation, readLocation) ==
  LET sharedNodes == IF syncType = "syncReduce"
                     THEN mirrorNodes[id] ELSE masterNodes[id]
  IN  IF Len(sharedNodes[host]) > 0
      THEN IF columnBlocked
           THEN FALSE
           ELSE isNotCommunicationPartner(id, host, syncType, writeLocation,
                                          readLocation, transposed[id])
      ELSE TRUE

\* nothingToRecv that selects the list nothingToSend selects
nothingToRecv_sendList(id, host, syncType, writeLocation, readLocation) ==
  LET sharedNodes == IF syncType = "syncReduce"
                     THEN mirrorNodes[id] ELSE masterNodes[id]
  IN  IF Len(sharedNodes[host]) > 0
      THEN IF columnBlocked
           THEN FALSE
           ELSE isNotCommunicationPartner(id, host, syncType, writeLocation,
                                          readLocation, transposed[id])
      ELSE TRUE

\* nothingToRecv that consults the grid in checkerboard mode too
nothingToRecv_alwaysGrid(id, host, syncType, writeLocation, readLocation) ==
  LET sharedNodes == IF syncType = "syncReduce"
                     THEN masterNodes[id] ELSE mirrorNodes[id]
  IN  IF Len(sharedNodes[host]) > 0
      THEN isNotCommunicationPartner(id, host, syncType, writeLocation,
                                     readLocation, transposed[id])
      ELSE TRUE

\* nothingToRecv evaluated on host id about peer host
nothingToRecv(id, host, syncType, writeLocation, readLocation) ==
  LET sharedNodes == IF syncType = "syncReduce"
                     THEN masterNodes[id] ELSE mirrorNodes[id]
  IN  IF Len(sharedNodes[host]) > 0
      THEN IF columnBlocked
           THEN FALSE
           ELSE isNotCommunicationPartner(id, host, syncType, writeLocation,
                                          readLocation, transposed[id])
      ELSE TRUE

(***************************************************************************)
(* The global graph file as the buffered reader exposes it.                *)
(***************************************************************************)
\* the edges of source n, in file order (edgeBegin(n) .. edgeEnd(n))
edgesOf(n) ==
  SelectSeq(RangeSeq(1, Len(edgeList) + 1), LAMBDA e : edgeList[e][1] = n)
edgeDestination(e) == edgeList[e][2]
edgeData(e) == e

(***************************************************************************)
(* Input families.                                                         *)
(***************************************************************************)
HostCounts == {1, 2, 3, 4}

\* the grids explored: numHosts * DecomposeFactor virtual hosts at most
GridSizes ==
  {g \in HostCounts \X (1..MaxDecomposeFactor) : g[1] * g[2] <= MaxVirtualHosts}

\* the swap of factorizeHosts changes the grid only when it is not square
squareGrid(H) == sqrtFloor(H, 1) * sqrtFloor(H, 1) = H

Graphs ==
  { [n |-> 4, edges |-> << <<0, 0>>, <<0, 2>>, <<0, 2>>, <<1, 3>>, <<3, 1>> >>],
    [n |-> 4, edges |-> << <<0, 1>>, <<0, 2>>, <<0, 3>>, <<1, 0>>, <<1, 2>> >>],
    [n |-> 3, edges |-> << <<1, 2>>, <<2, 0>>, <<2, 1>> >>] }

\* computeMasters: contiguous ranges covering [0, N), one per virtual host.
\* The shapes: an even split by node count with the remainder at the end or
\* at the front, and the split a scale factor gives that leaves every range
\* but the last one empty.
RangeShapes == {"floor", "ceil", "last"}

computeMasters(N, nv, shape) ==
  LET cut(v) == CASE shape = "floor" -> (v * N) \div nv
                  [] shape = "ceil" -> N - (((nv - v) * N) \div nv)
                  [] shape = "last" -> IF v = nv THEN N ELSE 0
  IN  [v \in 0..(nv - 1) |-> <<cut(v), cut(v + 1)>>]

SendBufSizes == {0, 6}


(***************************************************************************)
(* Construction: initial state.                                            *)
(***************************************************************************)
NoFile == [host |-> -1, words |-> <<>>]
NotRead == [read |-> FALSE]

emptyIndex ==
  [localToGlobalVector |-> <<>>, globalToLocalMap |-> <<>>,
   prefixSumOfEdges |-> <<>>, numNodes |-> 0, numEdges |-> 0,
   numOwned |-> 0, beginMaster |-> 0, dummyOutgoingNodes |-> 0,
   numNodesWithEdges |-> 0]

(***************************************************************************)
(* The buffered network interface before its constructor runs.             *)
(***************************************************************************)
\* makeNetworkIOMPI: the number of hosts and this host's id
Num == MaxNetHosts
ID == 0
Dests == 0..(Num - 1)

NoThread == -1
idleReader == [at |-> "idle", first |-> 0, last |-> 0, stale |-> FALSE, buf |-> <<>>]

bufferedStart ==
  /\ ready = 0
  /\ mainPc = "new"
  /\ workerPc = [at |-> "unstarted", i |-> 0]
  /\ recvData = <<>>
  /\ recvLock = NoThread
  /\ sendData = <<>>
  /\ wire = [d \in Dests |-> <<>>]
  /\ reader = [t \in Threads |-> idleReader]
  /\ sentTo = [d \in Dests |-> <<>>]
  /\ dispatched = <<>>
  /\ netFault = ""

Init ==
  /\ \E g \in GridSizes : numHosts = g[1] /\ DecomposeFactor = g[2]
  /\ columnBlocked \in BOOLEAN
  /\ moreColumnHosts \in (IF squareGrid(numHosts) THEN {FALSE} ELSE BOOLEAN)
  /\ transpose \in BOOLEAN
  /\ \E grid \in {factorizeHosts(numHosts, DecomposeFactor, moreColumnHosts)} :
        /\ numVirtualHosts = grid.numVirtualHosts
        /\ numRowHosts = grid.numRowHosts
        /\ numColumnHosts = grid.numColumnHosts
  /\ \E g \in Graphs : numGlobalNodes = g.n /\ edgeList = g.edges
  /\ \E shape \in (IF numHosts <= MaxSkewedHosts THEN RangeShapes
                     ELSE RangeShapes \ {"last"}) :
        gid2host = computeMasters(numGlobalNodes,
                                  numHosts * DecomposeFactor, shape)
  /\ edgePartitionSendBufSize \in SendBufSizes
  /\ pc = [h \in Hosts |-> "loadStatistics"]
  /\ evilPhase = [h \in Hosts |-> 1]
  /\ net = [to \in Hosts |-> [from \in Hosts |-> <<>>]]
  /\ numOutgoingEdges = [h \in Hosts |-> <<>>]
  /\ hasIncomingEdge = [h \in Hosts |-> <<>>]
  /\ metaReceived = [h \in Hosts |-> 0]
  /\ index = [h \in Hosts |-> emptyIndex]
  /\ graph = [h \in Hosts |-> <<>>]
  /\ loaded = [h \in Hosts |-> [d |-> 0, done |-> {}]]
  /\ sb = [h \in Hosts |-> [t \in Threads |->
             [i \in 0..(numColumnHosts - 1) |-> <<>>]]]
  /\ nodesWithEdgesCompleted = [h \in Hosts |-> 0]
  /\ mirrorNodes = [h \in Hosts |-> [p \in Hosts |-> <<>>]]
  /\ masterNodes = [h \in Hosts |-> [p \in Hosts |-> <<>>]]
  /\ transposed = [h \in Hosts |-> FALSE]
  /\ fault = [h \in Hosts |-> ""]
  /\ localGraphFile = NoFile
  /\ readBack = NotRead
  /\ bufferedStart

(***************************************************************************)
(* Network: tagged buffers, FIFO per (sender, receiver).                   *)
(***************************************************************************)
\* the network after host id has sent the buffers out[to] (a sequence each)
sendAll(nw, id, out) ==
  [to \in Hosts |-> [from \in Hosts |->
     IF from = id THEN nw[to][from] \o out[to] ELSE nw[to][from]]]

\* position of the first buffer from sender tagged tag, 0 if none
RECURSIVE firstTagged(_, _, _)
firstTagged(q, tag, k) ==
  IF k > Len(q) THEN 0
  ELSE IF q[k].tag = tag THEN k ELSE firstTagged(q, tag, k + 1)

\* recieveTagged can return a buffer of this sender
hasTagged(id, from) == firstTagged(net[id][from], evilPhase[id], 1) > 0

takeTagged(id, from) ==
  net[id][from][firstTagged(net[id][from], evilPhase[id], 1)]

removeAt(q, k) == [j \in 1..(Len(q) - 1) |-> IF j < k THEN q[j] ELSE q[j + 1]]

netAfterReceive(nw, id, from) ==
  [nw EXCEPT ![id][from] =
     removeAt(nw[id][from], firstTagged(nw[id][from], evilPhase[id], 1))]

(***************************************************************************)
(* loadStatistics: first pass (edge inspection).                           *)
(***************************************************************************)
Columns == 0..(numColumnHosts - 1)
Decomposed == 0..(DecomposeFactor - 1)

ownVirtual(id, d) == id + d * numHosts

\* size given to hasIncomingEdge[i]
columnBlockSize(i) ==
  SumOver(LAMBDA b : IF getColumnHostIDOfBlock(b) = i THEN rangeSize(b) ELSE 0,
          0, numVirtualHosts)

\* bits backed by the words a DynamicBitSet of this size allocates
bitsetCapacity(size) == 64 * ((size + 63) \div 64)

\* the edges host id reads: those of the sources of its own ranges
edgesRead(id) ==
  {e \in 1..Len(edgeList) : isOwned(id, edgeList[e][1])}

inspectOutgoing(id) ==
  [d \in Decomposed |-> [i \in Columns |->
     [j \in 1..rangeSize(ownVirtual(id, d)) |->
        Cardinality({e \in 1..Len(edgeList) :
           /\ edgeList[e][1] = rangeStart(ownVirtual(id, d)) + j - 1
           /\ getColumnHostID(edgeDestination(e)) = i})]]]

inspectIncoming(id) ==
  [i \in Columns |->
     [size |-> columnBlockSize(i),
      bits |-> {getColumnIndex(edgeDestination(e)) :
                  e \in {x \in edgesRead(id) :
                     /\ getColumnHostID(edgeDestination(x)) = i
                     /\ getColumnIndex(edgeDestination(x))
                          < bitsetCapacity(columnBlockSize(i))}}]]

\* some set() of the inspection addresses a word the bitset never allocated
inspectOutOfBounds(id) ==
  \E e \in edgesRead(id) :
     getColumnIndex(edgeDestination(e))
        >= bitsetCapacity(columnBlockSize(getColumnHostID(edgeDestination(e))))

\* a metadata buffer tagged with the phase that follows the round
metadataBuffer_nextPhase(id, outgoing, incoming, i) ==
  [tag |-> evilPhase[id] + 1, kind |-> "metadata",
   numOutgoingEdges |-> [d \in Decomposed |-> outgoing[d][i]],
   hasIncomingEdge |-> incoming[i]]

\* the metadata buffer for column peer i
metadataBuffer(id, outgoing, incoming, i) ==
  [tag |-> evilPhase[id], kind |-> "metadata",
   numOutgoingEdges |-> [d \in Decomposed |-> outgoing[d][i]],
   hasIncomingEdge |-> incoming[i]]

\* h_offset + i: the host of column i in the grid row of id
\* the host of column i without the offset of the grid row
rowPeer_column(id, i) == i

\* the host of column i in the grid row of id
rowPeer(id, i) == (gridRowID(id) * numColumnHosts) + i

\* the host leaves the build (crash, failed assertion)
abort(id, why) ==
  /\ pc' = [pc EXCEPT ![id] = "aborted"]
  /\ fault' = [fault EXCEPT ![id] = why]

loadStatistics_inspect(id) ==
  /\ pc[id] = "loadStatistics"
  /\ LET outgoing == inspectOutgoing(id)
         incoming == inspectIncoming(id)
         out == [to \in Hosts |->
                   IF to # id /\ \E i \in Columns : rowPeer(id, i) = to
                   THEN << metadataBuffer(id, outgoing, incoming,
                              CHOOSE i \in Columns : rowPeer(id, i) = to) >>
                   ELSE <<>>]
     IN  \E crash \in (IF inspectOutOfBounds(id) THEN BOOLEAN ELSE {FALSE}) :
           IF crash
           THEN /\ abort(id, "bitset")
                /\ UNCHANGED <<numOutgoingEdges, hasIncomingEdge, net>>
           ELSE /\ pc' = [pc EXCEPT ![id] = "exchange"]
                /\ numOutgoingEdges' = [numOutgoingEdges EXCEPT ![id] = outgoing]
                /\ hasIncomingEdge' = [hasIncomingEdge EXCEPT ![id] = incoming]
                /\ net' = sendAll(net, id, out)
                /\ fault' = fault
  /\ UNCHANGED <<inputs, evilPhase, metaReceived, index, graph, loaded, sb,
                 nodesWithEdgesCompleted, mirrorNodes, masterNodes, transposed>>

\* one iteration of the metadata receive loop
loadStatistics_receive(id) ==
  /\ pc[id] = "exchange"
  /\ metaReceived[id] < numColumnHosts - 1
  /\ \E from \in Hosts :
       /\ hasTagged(id, from)
       /\ LET b == takeTagged(id, from)
              h == from % numColumnHosts
          IN  IF b.kind = "metadata"
              THEN /\ numOutgoingEdges' = [numOutgoingEdges EXCEPT ![id] =
                         [d \in Decomposed |->
                            [numOutgoingEdges[id][d] EXCEPT ![h] =
                               b.numOutgoingEdges[d]]]]
                   /\ hasIncomingEdge' = [hasIncomingEdge EXCEPT ![id][h] =
                         b.hasIncomingEdge]
                   /\ metaReceived' = [metaReceived EXCEPT ![id] = @ + 1]
                   /\ UNCHANGED <<pc, fault>>
              ELSE /\ abort(id, "deserialize")
                   /\ UNCHANGED <<numOutgoingEdges, hasIncomingEdge,
                                  metaReceived>>
       /\ net' = netAfterReceive(net, id, from)
  /\ UNCHANGED <<inputs, evilPhase, index, graph, loaded, sb,
                 nodesWithEdgesCompleted, mirrorNodes, masterNodes, transposed>>

(***************************************************************************)
(* loadStatistics: layout of the local index.                              *)
(***************************************************************************)
\* hasIncomingEdge[0] after the bitwise_or loop
mergedIncoming(id) ==
  [size |-> hasIncomingEdge[id][0].size,
   bits |-> UNION {hasIncomingEdge[id][i].bits : i \in Columns}]

\* test() addresses a word the bitset never allocated
testOutOfBounds(bs, gid) == getColumnIndex(gid) >= bitsetCapacity(bs.size)

\* test(); unallocated is what a read outside the allocated words returns
testBit(bs, gid, unallocated) ==
  IF testOutOfBounds(bs, gid) THEN unallocated
  ELSE getColumnIndex(gid) \in bs.bits

leaderHostID(id, d) == gridRowID(id + d * numHosts) * numColumnHosts

\* step 1: the owned masters of range d
layoutOwnedRange(id, d) ==
  LET vec == numOutgoingEdges[id][d][gridColumnID(id)]
  IN  [j \in 1..Len(vec) |->
         [gid |-> rangeStart(ownVirtual(id, d)) + j - 1,
          deg |-> vec[j], kind |-> "master", oob |-> FALSE]]

layoutOwned(id) ==
  ConcatOver(LAMBDA d : layoutOwnedRange(id, d), 0, DecomposeFactor)

\* the condition with the column of the visited peer in place of the
\* column of the host
dummyCandidate_peerColumn(id, i, src) ==
  gridColumnID(i) = getColumnHostID(src)

\* the condition of the else-if branch of step 2, up to the bit test
dummyCandidate(id, i, src) ==
  gridColumnID(id + i * numHosts) = getColumnHostID(src)

\* step 2, inner loop: the sources of row peer i in round d
layoutOutgoingPeer(id, bs, unallocated, d, i) ==
  LET hostID == leaderHostID(id, d) + i
      vec == numOutgoingEdges[id][d][i]
  IN  IF virtual2RealHost(hostID) = id THEN <<>>
      ELSE [j \in 1..Len(vec) |->
              LET src == rangeStart(hostID) + j - 1
              IN  IF vec[j] > 0
                  THEN [gid |-> src, deg |-> vec[j],
                        kind |-> "outgoing", oob |-> FALSE]
                  ELSE IF dummyCandidate(id, i, src)
                       THEN [gid |-> src, deg |-> 0,
                             kind |-> IF testBit(bs, src, unallocated)
                                      THEN "dummy" ELSE "none",
                             oob |-> testOutOfBounds(bs, src)]
                       ELSE [gid |-> src, deg |-> 0, kind |-> "none",
                             oob |-> FALSE]]

\* step 2: the sources of the row peers (outgoing mirrors and dummies)
layoutOutgoing(id, bs, unallocated) ==
  ConcatOver(LAMBDA d :
               ConcatOver(LAMBDA i :
                            layoutOutgoingPeer(id, bs, unallocated, d, i),
                          0, numColumnHosts),
             0, DecomposeFactor)

incomingVirtual(colOfHost, i) ==
  IF columnBlocked THEN (colOfHost * numRowHosts) + i
  ELSE (i * numColumnHosts) + colOfHost

\* step 3 that visits the ranges of the host itself too
layoutIncomingPeer_noSkip(id, bs, unallocated, i) ==
  LET hostID_virtual == incomingVirtual(gridColumnID(id), i)
  IN  [j \in 1..rangeSize(hostID_virtual) |->
         LET dst == rangeStart(hostID_virtual) + j - 1
         IN  [gid |-> dst, deg |-> 0,
              kind |-> IF testBit(bs, dst, unallocated)
                       THEN "incoming" ELSE "none",
              oob |-> testOutOfBounds(bs, dst)]]

\* step 3 that creates every destination it visits, whatever its bit says
layoutIncomingPeer_untested(id, bs, unallocated, i) ==
  LET hostID_virtual == incomingVirtual(gridColumnID(id), i)
      skip == /\ columnBlocked
              /\ \E d \in Decomposed :
                   /\ hostID_virtual >= leaderHostID(id, d)
                   /\ hostID_virtual < leaderHostID(id, d) + numColumnHosts
  IN  IF virtual2RealHost(hostID_virtual) = id \/ skip THEN <<>>
      ELSE [j \in 1..rangeSize(hostID_virtual) |->
              [gid |-> rangeStart(hostID_virtual) + j - 1, deg |-> 0,
               kind |-> "incoming", oob |-> FALSE]]

\* step 3, inner loop: the destinations of column peer i
layoutIncomingPeer(id, bs, unallocated, i) ==
  LET hostID_virtual == incomingVirtual(gridColumnID(id), i)
      skip == /\ columnBlocked
              /\ \E d \in Decomposed :
                   /\ hostID_virtual >= leaderHostID(id, d)
                   /\ hostID_virtual < leaderHostID(id, d) + numColumnHosts
  IN  IF virtual2RealHost(hostID_virtual) = id \/ skip THEN <<>>
      ELSE [j \in 1..rangeSize(hostID_virtual) |->
              LET dst == rangeStart(hostID_virtual) + j - 1
              IN  [gid |-> dst, deg |-> 0,
                   kind |-> IF testBit(bs, dst, unallocated)
                            THEN "incoming" ELSE "none",
                   oob |-> testOutOfBounds(bs, dst)]]

\* step 3: the destinations of the other hosts of the column (incoming mirrors)
layoutIncoming(id, bs, unallocated) ==
  ConcatOver(LAMBDA i : layoutIncomingPeer(id, bs, unallocated, i),
             0, numRowHosts)

\* every slot the three steps visit, in layout order
layoutVisited(id, bs, unallocated) ==
  layoutOwned(id) \o layoutOutgoing(id, bs, unallocated)
                  \o layoutIncoming(id, bs, unallocated)

\* prefix sums that push the degree of the node, not the running total
RECURSIVE prefixSums_degrees(_, _, _)
prefixSums_degrees(nodes, k, numEdges) ==
  IF k > Len(nodes) THEN <<>>
  ELSE <<nodes[k].deg>> \o prefixSums_degrees(nodes, k + 1, numEdges)

\* prefix sums that push numEdges before the degree of the node is added
RECURSIVE prefixSums_exclusive(_, _, _)
prefixSums_exclusive(nodes, k, numEdges) ==
  IF k > Len(nodes) THEN <<>>
  ELSE <<numEdges>>
         \o prefixSums_exclusive(nodes, k + 1, numEdges + nodes[k].deg)

\* prefixSumOfEdges: the running numEdges pushed with every created node
RECURSIVE prefixSums(_, _, _)
prefixSums(nodes, k, numEdges) ==
  IF k > Len(nodes) THEN <<>>
  ELSE <<numEdges + nodes[k].deg>>
         \o prefixSums(nodes, k + 1, numEdges + nodes[k].deg)

\* the local index the three steps build from the created nodes
layoutIndex(id, nodes) ==
  LET l2g == [k \in 1..Len(nodes) |-> nodes[k].gid]
      owned == SumOver(LAMBDA d : rangeSize(ownVirtual(id, d)),
                       0, DecomposeFactor)
      g2l == [g \in SeqToSet(l2g) |->
                (CHOOSE k \in 1..Len(l2g) :
                   l2g[k] = g /\ \A k2 \in 1..Len(l2g) :
                                    l2g[k2] = g => k2 <= k) - 1]
  IN  [localToGlobalVector |-> l2g,
       globalToLocalMap |-> g2l,
       prefixSumOfEdges |-> prefixSums(nodes, 1, 0),
       numNodes |-> Len(nodes),
       numEdges |-> SumOver(LAMBDA k : nodes[k].deg, 1, Len(nodes) + 1),
       numOwned |-> owned,
       beginMaster |-> IF owned # 0 /\ rangeStart(id) \in SeqToSet(l2g)
                       THEN g2l[rangeStart(id)] ELSE 0,
       dummyOutgoingNodes |->
          Cardinality({k \in 1..Len(nodes) : nodes[k].kind = "dummy"}),
       numNodesWithEdges |->
          Cardinality({k \in 1..Len(nodes) :
                         nodes[k].kind \in {"master", "outgoing", "dummy"}})]

\* a counter that starts from zero
initialCompleted_zero(ix) == 0

\* a counter that starts from the number of nodes to complete
initialCompleted_all(ix) == ix.numNodesWithEdges

\* the counter loadEdges starts from: numOwned + dummyOutgoingNodes
initialCompleted(ix) == ix.numOwned + ix.dummyOutgoingNodes

\* metadata loop done: phase bump, bitwise_or, layout, CSR allocation,
\* beginMaster, and the start of loadEdges
loadStatistics_layout(id) ==
  /\ pc[id] = "exchange"
  /\ metaReceived[id] = numColumnHosts - 1
  /\ evilPhase' = [evilPhase EXCEPT ![id] = @ + 1]
  /\ \E bs \in {mergedIncoming(id)} :
     \E dry \in {layoutVisited(id, bs, FALSE)} :
     \E anyOOB \in {\E k \in 1..Len(dry) : dry[k].oob} :
     \E unallocated \in (IF anyOOB THEN BOOLEAN ELSE {FALSE}),
        crash \in (IF anyOOB THEN BOOLEAN ELSE {FALSE}) :
     \E nodes \in {SelectSeq(IF unallocated
                             THEN layoutVisited(id, bs, TRUE) ELSE dry,
                             LAMBDA v : v.kind # "none")} :
     \E ix \in {layoutIndex(id, nodes)} :
       LET duplicate == \E k1, k2 \in 1..Len(nodes) :
                           k1 < k2 /\ nodes[k1].gid = nodes[k2].gid
           inconsistent == /\ ~columnBlocked
                           /\ \E k \in 1..Len(nodes) : nodes[k].kind = "dummy"
           masterMissing == /\ ix.numOwned # 0
                            /\ rangeStart(id) \notin DOMAIN ix.globalToLocalMap
       IN  /\ crash => ~unallocated
           /\ IF crash THEN
                   /\ abort(id, "bitset")
                   /\ UNCHANGED <<index, graph, nodesWithEdgesCompleted>>
              ELSE IF inconsistent THEN
                   /\ abort(id, "inconsistency")
                   /\ UNCHANGED <<index, graph, nodesWithEdgesCompleted>>
              ELSE IF duplicate THEN
                   /\ abort(id, "duplicate")
                   /\ UNCHANGED <<index, graph, nodesWithEdgesCompleted>>
              ELSE IF masterMissing THEN
                   /\ abort(id, "beginMaster")
                   /\ UNCHANGED <<index, graph, nodesWithEdgesCompleted>>
              ELSE /\ pc' = [pc EXCEPT ![id] = "loadEdgesFromFile"]
                   /\ index' = [index EXCEPT ![id] = ix]
                   /\ graph' = [graph EXCEPT ![id] =
                                   [k \in 1..ix.numEdges |-> <<>>]]
                   /\ nodesWithEdgesCompleted' =
                        [nodesWithEdgesCompleted EXCEPT ![id] =
                           initialCompleted(ix)]
                   /\ fault' = fault
  /\ UNCHANGED <<inputs, net, numOutgoingEdges, hasIncomingEdge, metaReceived,
                 loaded, sb, mirrorNodes, masterNodes, transposed>>


(***************************************************************************)
(* Local index queries and the CSR.                                        *)
(***************************************************************************)
isLocal(id, gid) == isOwned(id, gid) \/ gid \in DOMAIN index[id].globalToLocalMap

\* globalToLocalMap.at(gid) finds the key
G2Lfound(id, gid) == gid \in DOMAIN index[id].globalToLocalMap

G2L(id, gid) == index[id].globalToLocalMap[gid]

L2G(id, lid) == index[id].localToGlobalVector[lid + 1]

\* edge slots are numbered from 0; fixEndEdge(n, prefixSumOfEdges[n])
edge_end(id, lsrc) == index[id].prefixSumOfEdges[lsrc + 1]
edge_begin(id, lsrc) == IF lsrc = 0 THEN 0 ELSE edge_end(id, lsrc - 1)

\* constructEdge that stores the cursor where the destination belongs
constructEdge_cursor(g, cur, ldst, gdata) ==
  [g EXCEPT ![cur + 1] = Append(@, [dst |-> cur, data |-> gdata])]

\* constructEdge(cur, ldst, gdata)
constructEdge(g, cur, ldst, gdata) ==
  [g EXCEPT ![cur + 1] = Append(@, [dst |-> ldst, data |-> gdata])]

\* constructEdge for the edges es (file positions), from slot cur on
RECURSIVE constructEdges(_, _, _, _, _)
constructEdges(id, g, cur, es, k) ==
  IF k > Len(es) THEN g
  ELSE constructEdges(id,
         constructEdge(g, cur, G2L(id, edgeDestination(es[k])), edgeData(es[k])),
         cur + 1, es, k + 1)

(***************************************************************************)
(* loadEdgesFromFile: second pass.                                         *)
(***************************************************************************)
\* SendBuffer size in 8-byte words: per record n, two vector lengths, and
\* the destination and data vectors
bufferSize(b) == SumOver(LAMBDA k : 3 + (2 * Len(b[k].gdst)), 1, Len(b) + 1)

\* the out-edges of n that the loop keeps (h_offset + i = id) or routes to i
keptEdges(id, n) ==
  SelectSeq(edgesOf(n),
            LAMBDA e : rowPeer(id, getColumnHostID(edgeDestination(e))) = id)

\* routing that also serializes the edges the host keeps
routedEdges_all(id, n, i) ==
  SelectSeq(edgesOf(n), LAMBDA e : getColumnHostID(edgeDestination(e)) = i)

\* routing that hands column peer i the edges of the mirrored column
routedEdges_mirrored(id, n, i) ==
  IF rowPeer(id, i) = id THEN <<>>
  ELSE SelectSeq(edgesOf(n),
                 LAMBDA e : getColumnHostID(edgeDestination(e))
                               = numColumnHosts - 1 - i)

\* the edges of n serialized for column peer i
routedEdges(id, n, i) ==
  IF rowPeer(id, i) = id THEN <<>>
  ELSE SelectSeq(edgesOf(n),
                 LAMBDA e : getColumnHostID(edgeDestination(e)) = i)

\* a record whose data vector is serialized back to front
edgeRecord_reversed(n, es) ==
  [n |-> n,
   gdst |-> [k \in 1..Len(es) |-> edgeDestination(es[k])],
   gdata |-> [k \in 1..Len(es) |-> edgeData(es[Len(es) + 1 - k])]]

\* the record of source n for one column peer: n, gdst_vec[i], gdata_vec[i]
edgeRecord(n, es) ==
  [n |-> n,
   gdst |-> [k \in 1..Len(es) |-> edgeDestination(es[k])],
   gdata |-> [k \in 1..Len(es) |-> edgeData(es[k])]]

\* processReceivedEdgeBuffer over the records of one buffer, from record k:
\* the graph and the counter it leaves, or the failure that ends it
RECURSIVE processReceivedEdgeBuffer(_, _, _, _, _)
processReceivedEdgeBuffer(id, recs, k, g, completed) ==
  IF k > Len(recs) THEN [ok |-> TRUE, graph |-> g, completed |-> completed]
  ELSE LET r == recs[k]
       IN  IF ~G2Lfound(id, r.n)
           THEN [ok |-> FALSE, why |-> "G2L"]
           ELSE IF edge_end(id, G2L(id, r.n)) - edge_begin(id, G2L(id, r.n))
                     # Len(r.gdst)
           THEN [ok |-> FALSE, why |-> "slot size"]
           ELSE IF \E j \in 1..Len(r.gdst) : ~G2Lfound(id, r.gdst[j])
           THEN [ok |-> FALSE, why |-> "G2L"]
           ELSE processReceivedEdgeBuffer(id, recs, k + 1,
                  [s \in 1..Len(g) |->
                     IF s > edge_begin(id, G2L(id, r.n))
                        /\ s <= edge_end(id, G2L(id, r.n))
                     THEN Append(g[s],
                            [dst |-> G2L(id, r.gdst[s - edge_begin(id, G2L(id, r.n))]),
                             data |-> r.gdata[s - edge_begin(id, G2L(id, r.n))]])
                     ELSE g[s]],
                  completed + 1)

\* recieveTagged followed by processReceivedEdgeBuffer for the buffer of
\* sender from; g and nw are the graph and the network it starts from
receiveAndProcess(id, from, g, nw) ==
  \E b \in {takeTagged(id, from)} :
     /\ net' = netAfterReceive(nw, id, from)
     /\ IF b.kind # "edges"
        THEN /\ abort(id, "deserialize")
             /\ UNCHANGED <<graph, nodesWithEdgesCompleted>>
        ELSE \E res \in {processReceivedEdgeBuffer(id, b.records, 1, g,
                            nodesWithEdgesCompleted[id])} :
               IF res.ok
               THEN /\ graph' = [graph EXCEPT ![id] = res.graph]
                    /\ nodesWithEdgesCompleted' =
                         [nodesWithEdgesCompleted EXCEPT ![id] = res.completed]
                    /\ UNCHANGED <<pc, fault>>
               ELSE /\ abort(id, res.why)
                    /\ UNCHANGED <<graph, nodesWithEdgesCompleted>>

\* the per-thread buffers after the record loop of the body, and what the
\* threshold test sends: column by column
RECURSIVE serializeRecords(_, _, _, _, _)
serializeRecords(id, n, i, bufs, out) ==
  IF i >= numColumnHosts THEN [bufs |-> bufs, out |-> out]
  ELSE IF Len(routedEdges(id, n, i)) = 0
       THEN serializeRecords(id, n, i + 1, bufs, out)
       ELSE LET b == Append(bufs[i], edgeRecord(n, routedEdges(id, n, i)))
            IN  IF bufferSize(b) > edgePartitionSendBufSize
                THEN serializeRecords(id, n, i + 1,
                       [bufs EXCEPT ![i] = <<>>],
                       [out EXCEPT ![rowPeer(id, i)] =
                          Append(@, [tag |-> evilPhase[id], kind |-> "edges",
                                     records |-> b])])
                ELSE serializeRecords(id, n, i + 1,
                       [bufs EXCEPT ![i] = b], out)

noBuffers == [to \in Hosts |-> <<>>]

currentRange(id) == ownVirtual(id, loaded[id].d)

\* one iteration of the do_all of round d, run by thread t for source n
loadEdgesFromFile_node(id, t, n) ==
  /\ pc[id] = "loadEdgesFromFile"
  /\ loaded[id].d < DecomposeFactor
  /\ n >= rangeStart(currentRange(id)) /\ n < rangeEnd(currentRange(id))
  /\ n \notin loaded[id].done
  /\ \E kept \in {keptEdges(id, n)} :
       IF ~G2Lfound(id, n) \/ \E k \in 1..Len(kept) :
                                  ~G2Lfound(id, edgeDestination(kept[k]))
       THEN /\ abort(id, "G2L")
            /\ UNCHANGED <<graph, loaded, sb, net, nodesWithEdgesCompleted>>
       ELSE IF edge_begin(id, G2L(id, n)) + Len(kept) # edge_end(id, G2L(id, n))
       THEN /\ abort(id, "cur")
            /\ UNCHANGED <<graph, loaded, sb, net, nodesWithEdgesCompleted>>
       ELSE \E ser \in {serializeRecords(id, n, 0, sb[id][t], noBuffers)},
               g \in {constructEdges(id, graph[id],
                                     edge_begin(id, G2L(id, n)), kept, 1)} :
              /\ loaded' = [loaded EXCEPT ![id].done = @ \cup {n}]
              /\ sb' = [sb EXCEPT ![id][t] = ser.bufs]
              /\ \/ /\ net' = sendAll(net, id, ser.out)
                    /\ graph' = [graph EXCEPT ![id] = g]
                    /\ UNCHANGED <<pc, fault, nodesWithEdgesCompleted>>
                 \/ \E from \in Hosts :
                      /\ hasTagged(id, from)
                      /\ receiveAndProcess(id, from, g,
                                           sendAll(net, id, ser.out))
  /\ UNCHANGED <<inputs, evilPhase, numOutgoingEdges, hasIncomingEdge,
                 metaReceived, index, mirrorNodes, masterNodes, transposed>>

\* after the do_all of round d: the remaining buffers of every thread are
\* sent; after the last round the receive loop starts
\* a drain that sends nothing
drainBuffers_none(id, t, i, out) == out

RECURSIVE drainBuffers(_, _, _, _)
drainBuffers(id, t, i, out) ==
  IF t >= MaxThreads THEN out
  ELSE IF i >= numColumnHosts THEN drainBuffers(id, t + 1, 0, out)
  ELSE IF Len(sb[id][t][i]) > 0
       THEN drainBuffers(id, t, i + 1,
              [out EXCEPT ![rowPeer(id, i)] =
                 Append(@, [tag |-> evilPhase[id], kind |-> "edges",
                            records |-> sb[id][t][i]])])
       ELSE drainBuffers(id, t, i + 1, out)

loadEdgesFromFile_drain(id) ==
  /\ pc[id] = "loadEdgesFromFile"
  /\ loaded[id].d < DecomposeFactor
  /\ \A n \in rangeStart(currentRange(id))..(rangeEnd(currentRange(id)) - 1) :
        n \in loaded[id].done
  /\ net' = sendAll(net, id, drainBuffers(id, 0, 0, noBuffers))
  /\ sb' = [sb EXCEPT ![id] = [t \in Threads |-> [i \in Columns |-> <<>>]]]
  /\ loaded' = [loaded EXCEPT ![id] = [d |-> @.d + 1, done |-> {}]]
  /\ pc' = [pc EXCEPT ![id] = IF loaded[id].d + 1 = DecomposeFactor
                              THEN "receiveEdges" ELSE @]
  /\ UNCHANGED <<inputs, evilPhase, numOutgoingEdges, hasIncomingEdge,
                 metaReceived, index, graph, nodesWithEdgesCompleted,
                 mirrorNodes, masterNodes, transposed, fault>>

(***************************************************************************)
(* loadEdges: receive loop, completion.                                    *)
(***************************************************************************)
receiveEdges(id) ==
  /\ pc[id] = "receiveEdges"
  /\ nodesWithEdgesCompleted[id] < index[id].numNodesWithEdges
  /\ \E from \in Hosts :
       /\ hasTagged(id, from)
       /\ receiveAndProcess(id, from, graph[id], net)
  /\ UNCHANGED <<inputs, evilPhase, numOutgoingEdges, hasIncomingEdge,
                 metaReceived, index, loaded, sb, mirrorNodes, masterNodes,
                 transposed>>

(***************************************************************************)
(* fillMirrorNodes.                                                        *)
(***************************************************************************)
\* the ids of the range paired with the host that follows its owner
mirrorsOfRange_nextHost(id, hostID_virtual) ==
  SelectSeq([j \in 1..rangeSize(hostID_virtual) |->
               [host |-> virtual2RealHost(hostID_virtual + 1),
                gid |-> rangeStart(hostID_virtual) + j - 1]],
            LAMBDA m : G2Lfound(id, m.gid))

\* the ids of range hostID_virtual present in globalToLocalMap, each paired
\* with the real host whose list it is pushed to
mirrorsOfRange(id, hostID_virtual) ==
  SelectSeq([j \in 1..rangeSize(hostID_virtual) |->
               [host |-> virtual2RealHost(hostID_virtual),
                gid |-> rangeStart(hostID_virtual) + j - 1]],
            LAMBDA m : G2Lfound(id, m.gid))

fillOutgoingPeer(id, d, i) ==
  LET hostID_virtual == leaderHostID(id, d) + i
  IN  IF hostID_virtual = ownVirtual(id, d) THEN <<>>
      ELSE mirrorsOfRange(id, hostID_virtual)

\* fillMirrorNodes without the loop over the incoming mirrors
fillIncomingPeer_none(id, d, i) == <<>>

fillIncomingPeer(id, d, i) ==
  LET hostID_virtual == incomingVirtual(gridColumnID(ownVirtual(id, d)), i)
  IN  IF hostID_virtual = ownVirtual(id, d) THEN <<>>
      ELSE IF /\ columnBlocked
              /\ hostID_virtual >= leaderHostID(id, d)
              /\ hostID_virtual < leaderHostID(id, d) + numColumnHosts
      THEN <<>>
      ELSE mirrorsOfRange(id, hostID_virtual)

\* every push_back of fillMirrorNodes, in program order
fillPushes(id) ==
  ConcatOver(LAMBDA d :
               ConcatOver(LAMBDA i : fillOutgoingPeer(id, d, i),
                          0, numColumnHosts),
             0, DecomposeFactor)
  \o ConcatOver(LAMBDA d :
                  ConcatOver(LAMBDA i : fillIncomingPeer(id, d, i),
                             0, numRowHosts),
                0, DecomposeFactor)

fillMirrorNodes(id) ==
  LET pushes == fillPushes(id)
  IN  [p \in Hosts |->
         LET mine == SelectSeq(pushes, LAMBDA m : m.host = p)
         IN  [k \in 1..Len(mine) |-> mine[k].gid]]

\* the receive loop has ended: phase bump, numNodesWithEdges, transpose,
\* fillMirrorNodes
loadEdges_finish(id) ==
  /\ pc[id] = "receiveEdges"
  /\ ~(nodesWithEdgesCompleted[id] < index[id].numNodesWithEdges)
  /\ evilPhase' = [evilPhase EXCEPT ![id] = @ + 1]
  /\ index' = [index EXCEPT ![id].numNodesWithEdges =
                 IF columnBlocked \/ transpose THEN index[id].numNodes ELSE @]
  /\ transposed' = [transposed EXCEPT ![id] = transpose]
  /\ mirrorNodes' = [mirrorNodes EXCEPT ![id] = fillMirrorNodes(id)]
  /\ pc' = [pc EXCEPT ![id] = "constructed"]
  /\ UNCHANGED <<inputs, net, numOutgoingEdges, hasIncomingEdge, metaReceived,
                 graph, loaded, sb, nodesWithEdgesCompleted, masterNodes,
                 fault>>

\* the runtime's exchange after construction: every host learns from every
\* peer which of its masters the peer mirrors
setup_communication ==
  /\ \A h \in Hosts : pc[h] = "constructed"
  /\ masterNodes' = [m \in Hosts |-> [x \in Hosts |-> mirrorNodes[x][m]]]
  /\ pc' = [h \in Hosts |-> "done"]
  /\ UNCHANGED <<inputs, evilPhase, net, numOutgoingEdges, hasIncomingEdge,
                 metaReceived, index, graph, loaded, sb,
                 nodesWithEdgesCompleted, mirrorNodes, transposed, fault>>

(***************************************************************************)
(* boostSerializeLocalGraph / boostDeSerializeLocalGraph.                  *)
(***************************************************************************)
\* ar << of a vector: the count, then the elements
archiveVector(v) == <<Len(v)>> \o v

\* the keys of a map in the order the archive stores its items
RECURSIVE ascending(_)
ascending(S) ==
  IF S = {} THEN <<>>
  ELSE LET m == CHOOSE x \in S : \A y \in S : x <= y
       IN  <<m>> \o ascending(S \ {m})

\* ar << of a map: the count, then key and value of every item
archiveMap(m) ==
  LET keys == ascending(DOMAIN m)
  IN  <<Len(keys)>> \o ConcatOver(LAMBDA k : <<keys[k], m[keys[k]]>>,
                                  1, Len(keys) + 1)

\* the archive after boostSerializeLocalGraph on host id
boostSerializeLocalGraph(id) ==
  <<index[id].numNodes, numRowHosts, numColumnHosts>>
    \o archiveVector(index[id].localToGlobalVector)
    \o archiveMap(index[id].globalToLocalMap)

\* ar >> of a vector whose count is at position at
loadVector(ar, at) == [k \in 1..ar[at] |-> ar[at + k]]

\* ar >> of a map whose count is at position at: the items are inserted in
\* archive order
loadMap(ar, at) ==
  LET item(k) == [key |-> ar[at + (2 * k) - 1], value |-> ar[at + (2 * k)]]
  IN  [g \in {item(k).key : k \in 1..ar[at]} |->
         item(CHOOSE k \in 1..ar[at] : item(k).key = g).value]

\* boostDeSerializeLocalGraph that reads the two grid fields in the other
\* order
boostDeSerializeLocalGraph_swapped(ar) ==
  [read |-> TRUE,
   numNodes |-> ar[1],
   numRowHosts |-> ar[3],
   numColumnHosts |-> ar[2],
   localToGlobalVector |-> loadVector(ar, 4),
   globalToLocalMap |-> loadMap(ar, 5 + ar[4])]

\* the fields of a host after boostDeSerializeLocalGraph from archive ar
boostDeSerializeLocalGraph(ar) ==
  [read |-> TRUE,
   numNodes |-> ar[1],
   numRowHosts |-> ar[2],
   numColumnHosts |-> ar[3],
   localToGlobalVector |-> loadVector(ar, 4),
   globalToLocalMap |-> loadMap(ar, 5 + ar[4])]

\* a constructed host writes its local graph
write_local_graph(id) ==
  /\ pc[id] = "done"
  /\ localGraphFile = NoFile
  /\ localGraphFile' = [host |-> id, words |-> boostSerializeLocalGraph(id)]
  /\ UNCHANGED <<inputs, hostState, readBack>>

\* a fresh host is constructed with readFromFile
read_local_graph ==
  /\ localGraphFile # NoFile
  /\ readBack = NotRead
  /\ readBack' = boostDeSerializeLocalGraph(localGraphFile.words)
  /\ UNCHANGED <<inputs, hostState, localGraphFile>>

construction ==
  \/ \E id \in Hosts :
        \/ loadStatistics_inspect(id)
        \/ loadStatistics_receive(id)
        \/ loadStatistics_layout(id)
        \/ \E t \in Threads, n \in 0..(numGlobalNodes - 1) :
              loadEdgesFromFile_node(id, t, n)
        \/ loadEdgesFromFile_drain(id)
        \/ receiveEdges(id)
        \/ loadEdges_finish(id)
  \/ setup_communication

Next ==
  \/ construction /\ UNCHANGED <<savedState, bufferedState>>
  \/ \E id \in Hosts : write_local_graph(id) /\ UNCHANGED bufferedState
  \/ read_local_graph /\ UNCHANGED bufferedState

Spec == Init /\ [][Next]_vars

(***************************************************************************)
(* Vocabulary of the properties.                                           *)
(***************************************************************************)
\* host h has left loadEdges and fillMirrorNodes behind
finished(h) == pc[h] \in {"constructed", "done"}
allFinished == \A h \in Hosts : finished(h)

Edges == 1..Len(edgeList)
Nodes == 0..(numGlobalNodes - 1)

\* the writes of edge occurrence e: <<host, slot, position in the slot>>
writesOf(e) ==
  {w \in UNION {{<<h, s, k>> : k \in 1..Len(graph[h][s])} :
                  <<h, s>> \in {x \in Hosts \X (1..Len(edgeList)) :
                                   x[2] <= Len(graph[x[1]])}} :
     graph[w[1]][w[2]][w[3]].data = e}

\* the local node whose slot range holds (1-based) slot s of host h
nodeOfSlot(h, s) ==
  CHOOSE l \in 0..(index[h].numNodes - 1) :
     edge_begin(h, l) < s /\ s <= edge_end(h, l)

\* the global edges host h holds: <<source, destination>> of every write,
\* mapped back through localToGlobalVector (-1: a destination that is no
\* local node)
constructedPairs(h) ==
  [w \in {x \in (1..Len(graph[h])) \X (1..Len(edgeList)) :
             x[2] <= Len(graph[h][x[1]])} |->
     <<L2G(h, nodeOfSlot(h, w[1])),
       IF graph[h][w[1]][w[2]].dst < index[h].numNodes
       THEN L2G(h, graph[h][w[1]][w[2]].dst) ELSE -1>>]

countConstructed(pair) ==
  SumOver(LAMBDA h : Cardinality({w \in DOMAIN constructedPairs(h) :
                                     constructedPairs(h)[w] = pair}),
          0, numHosts)

countGlobal(pair) == Cardinality({e \in Edges : edgeList[e] = pair})

\* the real master host of g
masterOf(g) == virtual2RealHost(getHostID(g))

\* C1 Exclusivity: at no time has an edge occurrence been constructed twice
\* (on two hosts or twice on one host), and once every host has finished edge
\* loading each edge occurrence of the global multigraph has been written into
\* a CSR slot exactly once.
C1_Exclusivity ==
  /\ \A e \in Edges : Cardinality(writesOf(e)) <= 1
  /\ allFinished => \A e \in Edges : Cardinality(writesOf(e)) = 1

\* every host finished, on a grid with a row of two hosts, and some edge was
\* constructed on a host that does not own its source (it travelled)
C1_Witness ==
  /\ allFinished
  /\ numColumnHosts > 1
  /\ \E e \in Edges : \E w \in writesOf(e) : ~isOwned(w[1], edgeList[e][1])

C3_MasterUniqueness ==
  \A g \in Nodes :
     /\ Cardinality({X \in Hosts : isOwned(X, g)}) = 1
     /\ isOwned(getHostID(g) % numHosts, g)

\* decomposed ranges: some id is owned through a second virtual range
C3_Witness ==
  /\ DecomposeFactor = 2
  /\ numHosts = 2
  /\ \E g \in Nodes : getHostID(g) >= numHosts /\ isOwned(masterOf(g), g)

\* C4 Prefix integrity: on every host that has finished edge loading the slot
\* sizes of the prefix sums add up to numEdges, every slot of every local node
\* holds exactly one constructed edge, and no host ever found its local write
\* cursor off the slot end or a received record of another size than its slot.
C4_PrefixIntegrity ==
  /\ \A h \in Hosts : fault[h] \notin {"cur", "slot size"}
  /\ \A h \in Hosts : finished(h) =>
        /\ Len(index[h].prefixSumOfEdges) = index[h].numNodes
        /\ SumOver(LAMBDA l : edge_end(h, l) - edge_begin(h, l),
                   0, index[h].numNodes) = index[h].numEdges
        /\ Len(graph[h]) = index[h].numEdges
        /\ \A l \in 0..(index[h].numNodes - 1) :
              /\ edge_begin(h, l) <= edge_end(h, l)
              /\ \A s \in (edge_begin(h, l) + 1)..edge_end(h, l) :
                    Len(graph[h][s]) = 1

\* a finished host with a slot of two edges filled from a received record
C4_Witness ==
  \E h \in Hosts :
     /\ finished(h)
     /\ \E l \in 0..(index[h].numNodes - 1) :
           /\ edge_end(h, l) - edge_begin(h, l) >= 2
           /\ ~isOwned(h, L2G(h, l))

\* C5 Replica closure: on every finished host X every local node g that X
\* does not own is listed in mirrorNodes[X][m], m the real master host of g;
\* after the reciprocal exchange masterNodes[m][X] lists g.
C5_ReplicaClosure ==
  \A X \in Hosts : finished(X) =>
     \A g \in DOMAIN index[X].globalToLocalMap :
        ~isOwned(X, g) =>
           /\ g \in SeqToSet(mirrorNodes[X][masterOf(g)])
           /\ pc[X] = "done" => g \in SeqToSet(masterNodes[masterOf(g)][X])

\* after the exchange some host holds a mirror that exists only because of an
\* incoming edge (no out-edges in its slot)
C5_Witness ==
  \E X \in Hosts :
     /\ pc[X] = "done"
     /\ \E g \in DOMAIN index[X].globalToLocalMap :
           /\ ~isOwned(X, g)
           /\ edge_end(X, G2L(X, g)) = edge_begin(X, G2L(X, g))
           /\ g \in SeqToSet(masterNodes[masterOf(g)][X])

\* what the inputs alone say host id holds after the metadata exchange: the
\* counts every row peer made for the column of id, and the bits the row
\* set for it
expectedOutgoing(id) ==
  [d \in Decomposed |-> [h \in Columns |->
     inspectOutgoing(rowPeer(id, h))[d][gridColumnID(id)]]]

expectedIncoming(id) ==
  UNION {inspectIncoming(rowPeer(id, h))[gridColumnID(id)].bits : h \in Columns}

\* what the inputs alone say slot s of host h holds, given its node order
expectedSlot(h, s) ==
  LET l == nodeOfSlot(h, s)
      mine == SelectSeq(edgesOf(L2G(h, l)),
                LAMBDA e : getColumnHostID(edgeDestination(e)) = gridColumnID(h))
      e == mine[s - edge_begin(h, l)]
  IN  << [dst |-> G2L(h, edgeDestination(e)), data |-> edgeData(e)] >>

\* C6 Determinism: the final local CSR of a host is a function of the graph,
\* the ranges, H, D and the mode flags: the metadata the layout is computed
\* from, the node order, the prefix sums and the destination and data of every
\* edge slot are the same whatever the arrival order of messages, the thread
\* schedule and the send-buffer threshold were.
C6_Determinism ==
  \A h \in Hosts : finished(h) =>
     /\ numOutgoingEdges[h] = expectedOutgoing(h)
     /\ mergedIncoming(h).bits = expectedIncoming(h)
     /\ \E nodes \in {SelectSeq(layoutVisited(h, mergedIncoming(h), FALSE),
                                LAMBDA v : v.kind # "none")} :
           /\ index[h].localToGlobalVector = [k \in 1..Len(nodes) |-> nodes[k].gid]
           /\ index[h].prefixSumOfEdges = prefixSums(nodes, 1, 0)
     /\ \A s \in 1..Len(graph[h]) : graph[h][s] = expectedSlot(h, s)

\* a finished host of a row of three whose edges came from both row peers
C6_Witness ==
  /\ numColumnHosts = 3
  /\ \E h \in Hosts :
        /\ finished(h)
        /\ \E s1, s2 \in 1..Len(graph[h]) :
              /\ Len(graph[h][s1]) = 1 /\ Len(graph[h][s2]) = 1
              /\ masterOf(L2G(h, nodeOfSlot(h, s1))) # h
              /\ masterOf(L2G(h, nodeOfSlot(h, s2))) # h
              /\ masterOf(L2G(h, nodeOfSlot(h, s1)))
                   # masterOf(L2G(h, nodeOfSlot(h, s2)))

done == \A h \in Hosts : pc[h] = "done"

\* C7 SyncPolicy symmetry: once masterNodes is the reciprocal of mirrorNodes,
\* nothingToSend about Y evaluated on X equals nothingToRecv about X
\* evaluated on Y, for every direction and location.
C7_SyncPolicySymmetry ==
  done =>
    \A X, Y \in Hosts : \A st \in SyncTypes, w \in WriteLocations,
                           r \in ReadLocations :
       nothingToSend(X, Y, st, w, r) = nothingToRecv(Y, X, st, w, r)

\* after the exchange on a 2 x 2 grid: a pair with something to send and a
\* pair with shared nodes that the grid rules out
C7_Witness ==
  /\ done
  /\ numHosts = 4
  /\ \E X, Y \in Hosts :
        /\ X # Y
        /\ ~nothingToSend(X, Y, "syncReduce", "writeSource", "readAny")
        /\ ~nothingToRecv(Y, X, "syncReduce", "writeSource", "readAny")
  /\ \E X, Y \in Hosts :
        /\ Len(mirrorNodes[X][Y]) > 0
        /\ nothingToSend(X, Y, "syncReduce", "writeSource", "readAny")

\* the list nothingToSend consults
sendList(id, p, st) ==
  IF st = "syncReduce" THEN mirrorNodes[id][p] ELSE masterNodes[id][p]

recvList(id, p, st) ==
  IF st = "syncReduce" THEN masterNodes[id][p] ELSE mirrorNodes[id][p]

\* the location a direction looks at: the write location for Reduce, the
\* read location for Broadcast
Locations == {"Source", "Destination", "Any"}
writeOf(loc) == "write" \o loc
readOf(loc) == "read" \o loc

\* the grid test of the table for a location
tableRow(id, p, loc) ==
  CASE loc = "Source" -> sameRow(id, p)
    [] loc = "Destination" -> sameColumn(id, p)
    [] loc = "Any" -> sameRow(id, p) \/ sameColumn(id, p)

\* C8 as stated: after construction, non-transposed and non-checkerboard, a
\* send to a peer p is needed iff the grid test of the location holds.
C8_TableAsStated ==
  done =>
    \A id, p \in Hosts : \A st \in SyncTypes, loc \in Locations :
       (id # p /\ ~columnBlocked /\ ~transposed[id]) =>
          (~nothingToSend(id, p, st, writeOf(loc), readOf(loc))
             <=> tableRow(id, p, loc))

\* C8 SyncPolicy table (non-transposed, non-checkerboard): for every peer p
\* and both directions a send to p is needed iff the shared-node list for p
\* is non-empty and the grid test of the location holds: same row for Source,
\* same column for Destination, same row or same column for Any.
C8_Table ==
  \A id, p \in Hosts : \A st \in SyncTypes, loc \in Locations :
     (~columnBlocked /\ ~transposed[id]) =>
        (~nothingToSend(id, p, st, writeOf(loc), readOf(loc))
           <=> (Len(sendList(id, p, st)) > 0 /\ tableRow(id, p, loc)))

\* after the exchange, non-transposed and non-checkerboard on a 2 x 2 grid:
\* a row peer with shared nodes that Source sends to and Destination does not
C8_Witness ==
  /\ done
  /\ ~columnBlocked
  /\ numHosts = 4
  /\ \E id, p \in Hosts :
        /\ id # p
        /\ ~transposed[id]
        /\ Len(mirrorNodes[id][p]) > 0
        /\ ~nothingToSend(id, p, "syncReduce", "writeSource", "readSource")
        /\ nothingToSend(id, p, "syncReduce", "writeDestination", "readSource")

swapLocation(l) ==
  CASE l = "writeSource" -> "writeDestination"
    [] l = "writeDestination" -> "writeSource"
    [] l = "readSource" -> "readDestination"
    [] l = "readDestination" -> "readSource"
    [] OTHER -> l

\* C9 Transposed orientation: the communication-partner predicate with
\* transposed = true equals the non-transposed predicate with Source and
\* Destination exchanged; Any is unchanged.  The predicate reads the grid
\* only, which construction never changes, so it is evaluated on the
\* constructed hosts, for every host and peer of every grid.
C9_TransposedFlips ==
  done =>
    \A id, p \in Hosts : \A st \in SyncTypes, w \in WriteLocations,
                            r \in ReadLocations :
       isNotCommunicationPartner(id, p, st, w, r, TRUE)
         = isNotCommunicationPartner(id, p, st, swapLocation(w),
                                     swapLocation(r), FALSE)

\* a transposed build on a 2 x 2 grid, a row peer: partner for Destination,
\* not for Source
C9_Witness ==
  /\ done
  /\ numHosts = 4
  /\ \E id, p \in Hosts :
        /\ transposed[id]
        /\ sameRow(id, p) /\ ~sameColumn(id, p)
        /\ isNotCommunicationPartner(id, p, "syncReduce", "writeSource",
                                     "readAny", transposed[id])
        /\ ~isNotCommunicationPartner(id, p, "syncReduce", "writeDestination",
                                      "readAny", transposed[id])

\* C10 Checkerboard conservatism: with columnBlocked, nothingToSend and
\* nothingToRecv are false whenever the selected shared-node list for p is
\* non-empty and true exactly when it is empty, whatever the direction, the
\* location and the grid position of p.
C10_CheckerboardConservatism ==
  columnBlocked =>
    \A id, p \in Hosts : \A st \in SyncTypes, w \in WriteLocations,
                            r \in ReadLocations :
       /\ nothingToSend(id, p, st, w, r) = (Len(sendList(id, p, st)) = 0)
       /\ nothingToRecv(id, p, st, w, r) = (Len(recvList(id, p, st)) = 0)

\* a checkerboard build after the exchange: shared nodes with a host of
\* another row and another column, and nothing withheld
C10_Witness ==
  /\ columnBlocked
  /\ done
  /\ \E id, p \in Hosts :
        /\ ~sameRow(id, p) /\ ~sameColumn(id, p)
        /\ Len(mirrorNodes[id][p]) > 0
        /\ ~nothingToSend(id, p, "syncReduce", "writeSource", "readAny")
        /\ ~nothingToRecv(p, id, "syncReduce", "writeSource", "readAny")

(***************************************************************************)
(* Grid factorization.                                                     *)
(***************************************************************************)
\* the grid of factorizeHosts before the swap and the multiplication by D
unswapped(H) == factorizeHosts(H, 1, FALSE)

\* c is the largest divisor of H whose square does not exceed H
largestSmallDivisor(H, c) ==
  /\ c \in 1..H
  /\ H % c = 0
  /\ c * c <= H
  /\ \A c2 \in (c + 1)..H : ~(H % c2 = 0 /\ c2 * c2 <= H)

\* what C11 says of the grid factorizeHosts gives for H, D and more
factorizationAsClaimed(H, D, more) ==
  LET g0 == unswapped(H)
      g == factorizeHosts(H, D, more)
  IN  /\ largestSmallDivisor(H, g0.numColumnHosts)
      /\ g0.numRowHosts * g0.numColumnHosts = H
      /\ g0.numRowHosts >= g0.numColumnHosts
      /\ g.numColumnHosts = (IF more THEN g0.numRowHosts ELSE g0.numColumnHosts)
      /\ g.numRowHosts = D * (IF more THEN g0.numColumnHosts ELSE g0.numRowHosts)
      /\ g.numVirtualHosts = H * D
      /\ g.numRowHosts * g.numColumnHosts = H * D

\* the claim of C11 over the host counts 1..MaxFactorizedHosts
factorizationTable ==
  \A H \in 1..MaxFactorizedHosts, D \in 1..(MaxDecomposeFactor + 1),
     more \in BOOLEAN : factorizationAsClaimed(H, D, more)

\* C11 Grid factorization: for every H, D and both values of moreColumnHosts
\* factorizeHosts gives the largest divisor of H not above its square root
\* as the column count and H divided by it as the row count, rows >= columns,
\* before the swap; after the swap and the multiplication of the rows by D
\* rows * columns = H * D.  Stated of the function for 1..MaxFactorizedHosts
\* hosts and of the grid every build holds.
C11_GridFactorization ==
  /\ factorizationTable
  /\ factorizationAsClaimed(numHosts, DecomposeFactor, moreColumnHosts)
  /\ numRowHosts * numColumnHosts = numHosts * DecomposeFactor
  /\ numVirtualHosts = numHosts * DecomposeFactor

\* a constructed build with the swap and a decomposition: two hosts as one
\* row of two columns, doubled to two rows; and a host count whose truncated
\* square root is no divisor
C11_Witness ==
  /\ done
  /\ numHosts = 2 /\ DecomposeFactor = 2 /\ moreColumnHosts
  /\ numRowHosts = 2 /\ numColumnHosts = 2
  /\ \E H \in 1..MaxFactorizedHosts : H % sqrtFloor(H, 1) # 0

(***************************************************************************)
(* Local index.                                                            *)
(***************************************************************************)
\* host h holds the index loadStatistics built
laidOut(h) == pc[h] \in {"loadEdgesFromFile", "receiveEdges", "constructed", "done"}

LocalIDs(h) == 0..(index[h].numNodes - 1)

\* C12 LocalIndex bijection: after layout localToGlobalVector holds no global
\* id twice (none of the three find() assertions of the layout fails),
\* numNodes is its length and globalToLocalMap is its exact inverse.
C12_LocalIndexBijection ==
  /\ \A h \in Hosts : fault[h] # "duplicate"
  /\ \A h \in Hosts : laidOut(h) =>
        /\ index[h].numNodes = Len(index[h].localToGlobalVector)
        /\ \A l1, l2 \in LocalIDs(h) : L2G(h, l1) = L2G(h, l2) => l1 = l2
        /\ DOMAIN index[h].globalToLocalMap
              = SeqToSet(index[h].localToGlobalVector)
        /\ \A l \in LocalIDs(h) : G2L(h, L2G(h, l)) = l

\* a decomposed checkerboard build: a laid-out host with masters of two
\* ranges and a node that is not its own
C12_Witness ==
  /\ DecomposeFactor = 2
  /\ columnBlocked
  /\ \E h \in Hosts :
        /\ laidOut(h)
        /\ rangeSize(h) > 0 /\ rangeSize(h + numHosts) > 0
        /\ \E l \in LocalIDs(h) : ~isOwned(h, L2G(h, l))

\* the local ids of the master window of host h
masterWindow(h) ==
  {l \in LocalIDs(h) : /\ l >= index[h].beginMaster
                        /\ l < index[h].beginMaster + index[h].numOwned}

ownedTotal(h) == SumOver(LAMBDA d : rangeSize(ownVirtual(h, d)), 0, DecomposeFactor)

\* C13 Master window: on every laid-out host a local id lies in
\* [beginMaster, beginMaster + numOwned) iff its global id lies in one of the
\* host's own D virtual ranges, numOwned is the total size of those ranges,
\* and the G2L that gives beginMaster finds the first id of the d = 0 range.
C13_MasterWindow ==
  /\ \A h \in Hosts : fault[h] # "beginMaster"
  /\ \A h \in Hosts : laidOut(h) =>
        /\ index[h].numOwned = ownedTotal(h)
        /\ \A l \in LocalIDs(h) :
              l \in masterWindow(h) <=> isOwned(h, L2G(h, l))

\* local node l of host h has an out-edge in the CSR of h
hasLocalOutEdge(h, l) == edge_end(h, l) > edge_begin(h, l)

\* local node l of host h is the destination of an edge in the CSR of h
hasLocalInEdge(h, l) ==
  \E s \in 1..Len(graph[h]) : \E k \in 1..Len(graph[h][s]) :
     graph[h][s][k].dst = l

\* C14 Mirror incidence: on every host that finished edge loading, every
\* local node that is not an owned master is the source or the destination
\* of at least one edge stored in the CSR of that host.
C14_MirrorIncidence ==
  \A h \in Hosts : finished(h) =>
     \A l \in LocalIDs(h) :
        ~isOwned(h, L2G(h, l)) => (hasLocalOutEdge(h, l) \/ hasLocalInEdge(h, l))

monotone(p) == \A k \in 1..(Len(p) - 1) : p[k] <= p[k + 1]

\* C15 as stated: the prefix-sum vector of the layout has numNodes + 1
\* entries, is monotone non-decreasing, and its entry at index numNodes is
\* numEdges.
C15_ShapeAsStated ==
  \A h \in Hosts : laidOut(h) =>
     /\ Len(index[h].prefixSumOfEdges) = index[h].numNodes + 1
     /\ monotone(index[h].prefixSumOfEdges)
     /\ index[h].prefixSumOfEdges[index[h].numNodes + 1] = index[h].numEdges

\* C15 Prefix vector shape: the prefix-sum vector of the layout has numNodes
\* entries (one per local node, the end of its slot), is monotone
\* non-decreasing, and its last entry, at index numNodes - 1, is numEdges;
\* without local nodes numEdges is 0.
C15_PrefixShape ==
  \A h \in Hosts : laidOut(h) =>
     /\ Len(index[h].prefixSumOfEdges) = index[h].numNodes
     /\ monotone(index[h].prefixSumOfEdges)
     /\ IF index[h].numNodes > 0
        THEN index[h].prefixSumOfEdges[index[h].numNodes] = index[h].numEdges
        ELSE index[h].numEdges = 0

\* a laid-out host with three nodes or more, edges, and a node without
\* out-edges before the last one
C15_Witness ==
  \E h \in Hosts :
     /\ laidOut(h)
     /\ index[h].numNodes >= 3
     /\ index[h].numEdges >= 2
     /\ \E l \in 1..(index[h].numNodes - 2) :
           edge_begin(h, l) = edge_end(h, l)

\* the global ids host X holds without owning them, whose master is host h
mirrorsHeldFor(X, h) ==
  {g \in DOMAIN index[X].globalToLocalMap : ~isOwned(X, g) /\ masterOf(g) = h}

noRepeats(q) == \A k1, k2 \in 1..Len(q) : q[k1] = q[k2] => k1 = k2

\* C16 Mirror table content: after fillMirrorNodes on host X, mirrorNodes[h]
\* holds exactly the local global ids that X does not own and whose owning
\* virtual host maps to real host h, each exactly once; no owned master of X
\* is in any list and mirrorNodes[X] is empty.
C16_MirrorTableContent ==
  \A X \in Hosts : finished(X) =>
     /\ \A h \in Hosts :
           /\ SeqToSet(mirrorNodes[X][h]) = mirrorsHeldFor(X, h)
           /\ noRepeats(mirrorNodes[X][h])
     /\ mirrorNodes[X][X] = <<>>

\* C17 Serialize round-trip: boostDeSerializeLocalGraph applied to the
\* archive boostSerializeLocalGraph wrote on a built host restores numNodes,
\* numRowHosts, numColumnHosts, localToGlobalVector and globalToLocalMap to
\* the values of that host.
C17_SerializeRoundTrip ==
  readBack.read =>
    /\ readBack.numNodes = index[localGraphFile.host].numNodes
    /\ readBack.numRowHosts = numRowHosts
    /\ readBack.numColumnHosts = numColumnHosts
    /\ readBack.localToGlobalVector
          = index[localGraphFile.host].localToGlobalVector
    /\ readBack.globalToLocalMap = index[localGraphFile.host].globalToLocalMap

\* the partition of a host of a grid with more rows than columns, with
\* mirrors, was written and read back
C17_Witness ==
  /\ readBack.read
  /\ numRowHosts # numColumnHosts
  /\ readBack.numNodes >= 3
  /\ \E l \in LocalIDs(localGraphFile.host) :
        ~isOwned(localGraphFile.host, readBack.localToGlobalVector[l + 1])

(***************************************************************************)
(* Completion of edge loading.                                             *)
(***************************************************************************)
loading(h) == pc[h] \in {"loadEdgesFromFile", "receiveEdges"}

\* what loadEdges credits before any edge is read
creditedUpFront(h) == index[h].numOwned + index[h].dummyOutgoingNodes

\* the node records host h has drained: the nodes of other hosts whose
\* slot is non-empty and written
recordsDrained(h) ==
  Cardinality({l \in LocalIDs(h) :
     /\ ~isOwned(h, L2G(h, l))
     /\ hasLocalOutEdge(h, l)
     /\ \A s \in (edge_begin(h, l) + 1)..edge_end(h, l) : Len(graph[h][s]) = 1})

\* the node records host h is to receive: its outgoing mirrors
recordsExpected(h) ==
  Cardinality({l \in LocalIDs(h) :
     ~isOwned(h, L2G(h, l)) /\ hasLocalOutEdge(h, l)})

\* the owned nodes the local pass of host h has gone through
ownedPassed(h) ==
  SumOver(LAMBDA d : rangeSize(ownVirtual(h, d)), 0, loaded[h].d)
    + Cardinality(loaded[h].done)

\* C18 as stated: the counter counts one per owned node the local pass went
\* through and one per node record drained, and a host has finished edge
\* loading exactly when it has reached numOwned + dummyOutgoing; the phase
\* is bumped only after that.
C18_CompletionAsStated ==
  \A h \in Hosts :
     /\ loading(h) =>
           /\ nodesWithEdgesCompleted[h] = ownedPassed(h) + recordsDrained(h)
           /\ nodesWithEdgesCompleted[h] < creditedUpFront(h)
           /\ evilPhase[h] = 2
     /\ finished(h) =>
           /\ nodesWithEdgesCompleted[h] = creditedUpFront(h)
           /\ evilPhase[h] = 3

\* C18 Completion criterion: the counter starts at numOwned + dummyOutgoing
\* and is incremented once for each node record drained; a host stays in
\* edge loading while the counter is below numNodesWithEdges (owned nodes,
\* dummies and outgoing mirrors) and has finished exactly when the counter
\* has reached it; the phase counter is bumped only after that.
C18_CompletionCriterion ==
  \A h \in Hosts :
     /\ (loading(h) \/ finished(h)) =>
           nodesWithEdgesCompleted[h] = creditedUpFront(h) + recordsDrained(h)
     /\ loading(h) =>
           /\ index[h].numNodesWithEdges
                 = creditedUpFront(h) + recordsExpected(h)
           /\ nodesWithEdgesCompleted[h] <= index[h].numNodesWithEdges
           /\ evilPhase[h] = 2
     /\ finished(h) =>
           /\ nodesWithEdgesCompleted[h]
                 = creditedUpFront(h) + recordsExpected(h)
           /\ evilPhase[h] = 3

\* a checkerboard host with a dummy node that finished after draining the
\* records of two nodes
C18_Witness ==
  \E h \in Hosts :
     /\ finished(h)
     /\ index[h].numOwned > 0
     /\ recordsDrained(h) >= 2
     /\ nodesWithEdgesCompleted[h] > creditedUpFront(h)

(***************************************************************************)
(* Grids of one column.                                                    *)
(***************************************************************************)
nothingInFlight == \A to, from \in Hosts : net[to][from] = <<>>

nothingBuffered ==
  \A h \in Hosts, t \in Threads, i \in Columns : sb[h][t][i] = <<>>

\* host h holds every out-edge of its master g, in file order
holdsAllOutEdges(h, g) ==
  /\ G2Lfound(h, g)
  /\ edge_end(h, G2L(h, g)) - edge_begin(h, G2L(h, g)) = Len(edgesOf(g))
  /\ \A k \in 1..Len(edgesOf(g)) :
        /\ Len(graph[h][edge_begin(h, G2L(h, g)) + k]) = 1
        /\ graph[h][edge_begin(h, G2L(h, g)) + k][1].data = edgeData(edgesOf(g)[k])
        /\ L2G(h, graph[h][edge_begin(h, G2L(h, g)) + k][1].dst)
              = edgeDestination(edgesOf(g)[k])

\* C19 Single-column grids send nothing: with one grid column no metadata
\* buffer and no edge record is ever sent, every host that finished edge
\* loading constructed every out-edge of each of its masters itself and
\* drained no record; with one host the result is numNodes = N, numOwned = N,
\* numEdges = M and every mirrorNodes list empty.
C19_SingleColumnSendsNothing ==
  numColumnHosts = 1 =>
    /\ nothingInFlight
    /\ nothingBuffered
    /\ \A h \in Hosts : fault[h] # "deserialize"
    /\ \A h \in Hosts : finished(h) =>
          /\ recordsDrained(h) = 0
          /\ \A g \in Nodes : isOwned(h, g) => holdsAllOutEdges(h, g)
    /\ (numHosts = 1 /\ finished(0)) =>
          /\ index[0].numNodes = numGlobalNodes
          /\ index[0].numOwned = numGlobalNodes
          /\ index[0].numEdges = Len(edgeList)
          /\ \A p \in Hosts : mirrorNodes[0][p] = <<>>

(***************************************************************************)
(* Dummy outgoing nodes.                                                   *)
(***************************************************************************)
\* the out-edges of g assigned to host X: those whose destination lies in
\* the grid column of X
assignedOutEdges(X, g) ==
  Cardinality({e \in Edges : /\ edgeList[e][1] = g
                             /\ getColumnHostID(edgeDestination(e))
                                  = gridColumnID(X)})

\* the virtual host of g lies in one of the grid rows of host X
inRowOf(X, g) ==
  \E d \in Decomposed :
     gridRowID(getHostID(g)) = gridRowID(ownVirtual(X, d))

\* the nodes C20 counts on host X
dummyNodes(X) ==
  {g \in Nodes :
     /\ masterOf(g) # X
     /\ inRowOf(X, g)
     /\ assignedOutEdges(X, g) = 0
     /\ getColumnHostID(g) = gridColumnID(X)
     /\ getColumnIndex(g) \in mergedIncoming(X).bits}

\* C20 Dummy outgoing nodes: in checkerboard mode dummyOutgoingNodes of a
\* laid-out host X is the number of nodes owned by another host of the grid
\* row of X that were assigned no out-edge on X, whose column is the grid
\* column of X and whose bit is set in the merged hasIncomingEdge[0]; each
\* of them is a local node with an empty out-edge slot.
C20_DummyOutgoingNodes ==
  columnBlocked =>
    \A X \in Hosts : laidOut(X) =>
       /\ index[X].dummyOutgoingNodes = Cardinality(dummyNodes(X))
       /\ \A g \in dummyNodes(X) :
             /\ G2Lfound(X, g)
             /\ edge_end(X, G2L(X, g)) = edge_begin(X, G2L(X, g))

(***************************************************************************)
(* Edge routing.                                                           *)
(***************************************************************************)
\* the column peer of the block of global id t
columnPeerOfBlockOf(t) ==
  LET block == getHostID(t) % numHosts
  IN  IF columnBlocked THEN block \div numRowHosts ELSE block % numColumnHosts

\* the host the routing rule names for edge occurrence e, read by the master
\* of its source
routingTarget(e) ==
  ((masterOf(edgeList[e][1]) \div numColumnHosts) * numColumnHosts)
     + columnPeerOfBlockOf(edgeDestination(e))

\* every edge of record r is an edge of the file with the source of r, and
\* the routing rule sends it to host to
recordRoutedTo(r, to) ==
  /\ Len(r.gdst) = Len(r.gdata)
  /\ \A j \in 1..Len(r.gdata) :
        /\ r.gdata[j] \in Edges
        /\ edgeList[r.gdata[j]] = <<r.n, r.gdst[j]>>
        /\ routingTarget(r.gdata[j]) = to

rowPeers(X) == {p \in Hosts \ {X} : p \div numColumnHosts = X \div numColumnHosts}

\* host p has completed the first pass and sent its metadata buffers
hasInspected(p) == numOutgoingEdges[p] # <<>>

\* the metadata buffers of sender from that host to has not received yet
metadataInFlight(to, from) ==
  Cardinality({k \in 1..Len(net[to][from]) : net[to][from][k].kind = "metadata"})

\* host X has left the metadata receive loop
pastMetadataRound(X) == evilPhase[X] >= 2

\* C22 Metadata round message count: a host that has inspected has sent one
\* metadata buffer to each of the C-1 other hosts of its grid row and none to
\* any other host (itself included); the receive count of a host is the
\* number of row peers whose buffer it has consumed; and a host proceeds to
\* the layout only with a count of C-1, every row peer's buffer consumed.
C22_MetadataMessageCount ==
  /\ \A X \in Hosts : Cardinality(rowPeers(X)) = numColumnHosts - 1
  /\ \A to, from \in Hosts :
        metadataInFlight(to, from)
           <= (IF from \in rowPeers(to) /\ hasInspected(from) THEN 1 ELSE 0)
  /\ \A X \in Hosts :
        metaReceived[X] =
           Cardinality({p \in rowPeers(X) :
                           hasInspected(p) /\ metadataInFlight(X, p) = 0})
  /\ \A X \in Hosts :
        pastMetadataRound(X) =>
           /\ metaReceived[X] = numColumnHosts - 1
           /\ \A p \in rowPeers(X) :
                 hasInspected(p) /\ metadataInFlight(X, p) = 0

\* a row of three: one host is past the metadata round with two buffers
\* received, while a row peer of it still has a buffer to receive
C22_Witness ==
  /\ numColumnHosts = 3
  /\ \E X \in Hosts :
        /\ pastMetadataRound(X)
        /\ metaReceived[X] = 2
        /\ \E p \in rowPeers(X) : \E q \in rowPeers(p) :
              metaReceived[p] = 1 /\ metadataInFlight(p, q) = 1

(***************************************************************************)
(* Phases.                                                                 *)
(***************************************************************************)
\* host to consumes a buffer of sender from in this step
consumes(to, from) == Len(net'[to][from]) < Len(net[to][from])

\* the buffer it consumes
consumed(to, from) ==
  CHOOSE m \in SeqToSet(net[to][from]) :
     \E k \in 1..Len(net[to][from]) :
        net[to][from][k] = m /\ removeAt(net[to][from], k) = net'[to][from]

inMetadataRound(h) == pc[h] \in {"loadStatistics", "exchange"}
inEdgeRound(h) == pc[h] \in {"loadEdgesFromFile", "receiveEdges"}

\* metadata buffers carry the phase of the metadata round and edge buffers
\* the next one, the phase their sender has after its bump
tagsByRound ==
  \A to, from \in Hosts : \A k \in 1..Len(net[to][from]) :
     /\ net[to][from][k].kind = "metadata" => net[to][from][k].tag = 1
     /\ net[to][from][k].kind = "edges" =>
           /\ net[to][from][k].tag = 2
           /\ evilPhase[from] >= 2

\* every receive consumes a buffer of the receiver's phase and round
receivesOwnPhase ==
  \A to, from \in Hosts :
     consumes(to, from) =>
        /\ Len(net'[to][from]) = Len(net[to][from]) - 1
        /\ consumed(to, from).tag = evilPhase[to]
        /\ inMetadataRound(to) => consumed(to, from).kind = "metadata"
        /\ inEdgeRound(to) => consumed(to, from).kind = "edges"
        /\ inMetadataRound(to) \/ inEdgeRound(to)

\* C23 Phase separation: in every interleaving, metadata buffers are tagged
\* with the phase of the metadata round and edge buffers with the phase their
\* sender has after its bump; every receive consumes a buffer tagged with the
\* receiver's current phase, so a host in the metadata round never consumes
\* an edge buffer and an edge-round receive never consumes a metadata buffer;
\* no host ever fails to decode a buffer of the other round.
C23_PhaseSeparation ==
  /\ [](tagsByRound /\ \A h \in Hosts : fault[h] # "deserialize")
  /\ [][receivesOwnPhase]_vars

\* a host still in the metadata receive loop has an edge buffer of a row
\* peer, which has bumped its phase, waiting in its queue
C23_Witness ==
  \E X \in Hosts : \E from \in Hosts \ {X} :
     /\ pc[X] = "exchange"
     /\ evilPhase[X] = 1
     /\ evilPhase[from] = 2
     /\ \E k \in 1..Len(net[X][from]) : net[X][from][k].kind = "edges"

\* the number of bumps host h has made
bumps(h) == evilPhase[h] - 1

\* no buffer of a phase that host h has left is still waiting for it
nothingStale(h) ==
  \A from \in Hosts : \A k \in 1..Len(net[h][from]) :
     net[h][from][k].tag >= evilPhase[h]

\* C24 Lock-step phase bump: a host has made no bump while in the metadata
\* round, one bump while in the edge-loading round and two once it has
\* finished, and at no time is a
\* buffer tagged with a phase older than the current phase of a host still
\* undelivered to that host.
C24_LockStepPhaseBump ==
  /\ \A h \in Hosts :
        /\ inMetadataRound(h) => bumps(h) = 0
        /\ inEdgeRound(h) => bumps(h) = 1
        /\ finished(h) => bumps(h) = 2
        /\ bumps(h) \in 0..2
  /\ \A h \in Hosts : nothingStale(h)

\* a host has made both bumps after draining an edge buffer, while a row peer
\* that has made one bump still has an edge buffer of its phase to receive
C24_Witness ==
  \E h \in Hosts : \E p \in rowPeers(h) :
     /\ finished(h)
     /\ bumps(h) = 2
     /\ recordsDrained(h) > 0
     /\ inEdgeRound(p)
     /\ bumps(p) = 1
     /\ \E k \in 1..Len(net[p][h]) : net[p][h][k].tag = evilPhase[p]

(***************************************************************************)
(* Metadata: what is computed and what is merged.                          *)
(***************************************************************************)
colOf(h) == h % numColumnHosts
rowOf(h) == h \div numColumnHosts

\* the number of out-edges of source s whose destination has column peer i
outDegreeTowards(s, i) ==
  Cardinality({e \in Edges : /\ edgeList[e][1] = s
                             /\ columnPeerOfBlockOf(edgeList[e][2]) = i})

\* the degree vector of the d-th range of host p for column peer i
degreeVector(p, d, i) ==
  [k \in 1..rangeSize(p + (d * numHosts)) |->
     outDegreeTowards(rangeStart(p + (d * numHosts)) + k - 1, i)]

\* the host of column c in the grid row of X
rowPeerInColumn(X, c) == CHOOSE p \in Hosts : rowOf(p) = rowOf(X) /\ colOf(p) = c

\* some host of the grid row of X read an edge that ends at t
readInRowOf(X, t) ==
  \E e \in Edges : /\ edgeList[e][2] = t
                   /\ rowOf(masterOf(edgeList[e][1])) = rowOf(X)

\* the merged degree vectors of X are those its row peers computed for the
\* column of X
mergedDegrees(X) ==
  \A c \in Columns \ {colOf(X)} : \A d \in Decomposed :
     numOutgoingEdges[X][d][c] = degreeVector(rowPeerInColumn(X, c), d, colOf(X))

\* the bit of t in the merged hasIncomingEdge[0] of X is set iff the row of X
\* read an edge ending at t
mergedBits(X) ==
  \A t \in Nodes :
     columnPeerOfBlockOf(t) = colOf(X) =>
        (getColumnIndex(t) \in mergedIncoming(X).bits <=> readInRowOf(X, t))

\* C25 Merged metadata: on every host X past the metadata round, whatever the
\* arrival order was, the slot of each other column c' holds the degree
\* vectors the row peer in column c' computed for the column of X, and the
\* bit of t in the merged hasIncomingEdge[0] is set iff some host of the row
\* of X read an edge ending at t.
C25_MergedMetadata ==
  \A X \in Hosts : pastMetadataRound(X) => mergedDegrees(X) /\ mergedBits(X)

\* host X has completed the first pass and merged nothing yet
justInspected(X) == pc[X] = "exchange" /\ metaReceived[X] = 0

outDegree(s) == Cardinality({e \in Edges : edgeList[e][1] = s})

\* the column indices of the destinations with column peer i of the edges
\* host X inspects
inspectedIndices(X, i) ==
  {getColumnIndex(edgeList[e][2]) :
     e \in {x \in Edges : /\ masterOf(edgeList[x][1]) = X
                          /\ columnPeerOfBlockOf(edgeList[x][2]) = i}}

\* C26 Inspector result: after the first pass on host X, numOutgoingEdges
\* [d][i][k] is the number of out-edges of the k-th source of the d-th range
\* of X whose destination has column peer i (the sum over i being the
\* out-degree of the source), and a bit of hasIncomingEdge[i] is set iff it is
\* the column index of the destination, with column peer i, of at least one
\* edge X inspected.
C26_InspectorResult ==
  \A X \in Hosts : justInspected(X) =>
     /\ \A d \in Decomposed :
           /\ \A i \in Columns : numOutgoingEdges[X][d][i] = degreeVector(X, d, i)
           /\ \A k \in 1..rangeSize(X + (d * numHosts)) :
                 SumOver(LAMBDA i : numOutgoingEdges[X][d][i][k], 0, numColumnHosts)
                    = outDegree(rangeStart(X + (d * numHosts)) + k - 1)
     /\ \A i \in Columns : hasIncomingEdge[X][i].bits = inspectedIndices(X, i)

\* the degree counts of the first pass alone
inspectedDegrees ==
  \A X \in Hosts : justInspected(X) =>
     \A d \in Decomposed, i \in Columns :
        numOutgoingEdges[X][d][i] = degreeVector(X, d, i)

(***************************************************************************)
(* CSR writes.  A step of the model is the work of one thread: one          *)
(* iteration of the do_all body (with the receive it ends with) or one      *)
(* iteration of a receive loop.                                             *)
(***************************************************************************)
\* the (1-based) edge slots of local node l of host h
slotsOf(h, l) == (edge_begin(h, l) + 1)..edge_end(h, l)

\* slot s of host h is written in this step
writtenNow(h, s) == Len(graph'[h][s]) > Len(graph[h][s])

\* this step drains a record for source n on host h
drainsRecordOf(h, n) ==
  \E from \in Hosts :
     /\ consumes(h, from)
     /\ \E r \in 1..Len(consumed(h, from).records) :
           consumed(h, from).records[r].n = n

\* the records for source n still on their way to host h: in flight, or in a
\* thread's outbound buffer on the master of n
recordsUnderWay(h, n) ==
  SumOver(LAMBDA from :
            SumOver(LAMBDA k :
                      IF net[h][from][k].kind = "edges"
                      THEN Cardinality({r \in 1..Len(net[h][from][k].records) :
                                           net[h][from][k].records[r].n = n})
                      ELSE 0,
                    1, Len(net[h][from]) + 1),
          0, numHosts)
  + SumOver(LAMBDA t :
              IF masterOf(n) # h /\ rowOf(masterOf(n)) = rowOf(h)
              THEN Cardinality({r \in 1..Len(sb[masterOf(n)][t][colOf(h)]) :
                                   sb[masterOf(n)][t][colOf(h)][r].n = n})
              ELSE 0,
            0, MaxThreads)

\* no slot holds two writes, and a source has at most one record under way
\* to a host, none once its slots there are written
writtenOnce ==
  \A h \in Hosts :
     /\ \A s \in 1..Len(graph[h]) : Len(graph[h][s]) <= 1
     /\ laidOut(h) =>
           \A l \in LocalIDs(h) :
              /\ recordsUnderWay(h, L2G(h, l)) <= 1
              /\ (\E s \in slotsOf(h, l) : graph[h][s] # <<>>) =>
                    recordsUnderWay(h, L2G(h, l)) = 0

\* a step that writes a slot of a local node writes all slots of the node,
\* all empty before: in the iteration that routes the node if it is owned,
\* else in the step that drains a record of the node
writtenByOneThread ==
  \A h \in Hosts :
     Len(graph'[h]) = Len(graph[h]) =>
        \A l \in LocalIDs(h) :
           (\E s \in slotsOf(h, l) : writtenNow(h, s)) =>
              /\ \A s \in slotsOf(h, l) :
                    graph[h][s] = <<>> /\ Len(graph'[h][s]) = 1
              /\ IF isOwned(h, L2G(h, l))
                 THEN /\ L2G(h, l) \notin loaded[h].done
                      /\ L2G(h, l) \in loaded'[h].done
                 ELSE drainsRecordOf(h, L2G(h, l))

\* C27 Race-free CSR writes: in every interleaving of threads and message
\* arrivals no CSR edge slot is written twice; the out-edge slots of a local
\* node are written together in one step of one thread, which is the
\* iteration routing the node if the host owns it and otherwise the drain of
\* the single record sent to the host for that source.
C27_RaceFreeWrites ==
  /\ []writtenOnce
  /\ [][writtenByOneThread]_vars

\* a finished host holds an owned node and a mirror with two out-edge slots
\* each, all written
C27_Witness ==
  \E h \in Hosts :
     /\ finished(h)
     /\ \E l1, l2 \in LocalIDs(h) :
           /\ isOwned(h, L2G(h, l1)) /\ ~isOwned(h, L2G(h, l2))
           /\ Cardinality(slotsOf(h, l1)) >= 2
           /\ Cardinality(slotsOf(h, l2)) >= 2
           /\ \A s \in slotsOf(h, l1) \cup slotsOf(h, l2) : Len(graph[h][s]) = 1

(***************************************************************************)
(* Termination.  Every host is a process of its own that keeps running:    *)
(* the receive loops spin on recieveTagged, and do_all runs every           *)
(* iteration.  A step of a host that stays possible is eventually taken.   *)
(***************************************************************************)
\* the steps of host id
hostStep(id) ==
  /\ \/ loadStatistics_inspect(id)
     \/ loadStatistics_receive(id)
     \/ loadStatistics_layout(id)
     \/ \E t \in Threads, n \in 0..(numGlobalNodes - 1) :
           loadEdgesFromFile_node(id, t, n)
     \/ loadEdgesFromFile_drain(id)
     \/ receiveEdges(id)
     \/ loadEdges_finish(id)
  /\ UNCHANGED <<savedState, bufferedState>>

FairSpec == Spec /\ \A id \in 0..(MaxVirtualHosts - 1) : WF_vars(id \in Hosts /\ hostStep(id))

\* C28 Build termination: with reliable tagged delivery and fair scheduling,
\* for every graph and every order of message arrival, every host eventually
\* has left the metadata receive loop and the edge receive loop and has made
\* both phase bumps.
C28_BuildTermination == <>(\A h \in Hosts : finished(h) /\ bumps(h) = 2)

\* the same for builds without decomposition
terminatesUndecomposed ==
  (DecomposeFactor = 1) => <>(\A h \in Hosts : finished(h) /\ bumps(h) = 2)

(***************************************************************************)
(* Outbound buffers.                                                       *)
(***************************************************************************)
\* the do_all body of its master has run for owned source n of host h
passedNode(h, n) ==
  \/ n \in loaded[h].done
  \/ \E d \in 0..(loaded[h].d - 1) :
        n >= rangeStart(ownVirtual(h, d)) /\ n < rangeEnd(ownVirtual(h, d))

\* the round of n has been drained on its master h
drainedNode(h, n) ==
  \E d \in 0..(loaded[h].d - 1) :
     n >= rangeStart(ownVirtual(h, d)) /\ n < rangeEnd(ownVirtual(h, d))

\* the record the body appends for source n and column peer i: all edges of
\* n whose destination has column peer i, in file order
wholeRecord(n, i) ==
  edgeRecord(n, SelectSeq(edgesOf(n),
                   LAMBDA e : columnPeerOfBlockOf(edgeDestination(e)) = i))

\* the records for source n in the outbound buffers of host h for column i
recordsBuffered(h, n, i) ==
  UNION {{<<t, r>> : r \in {x \in 1..Len(sb[h][t][i]) : sb[h][t][i][x].n = n}} :
           t \in Threads}

\* the records for source n in the buffers in flight to host to
recordsInFlight(to, n) ==
  UNION {UNION {IF net[to][from][k].kind = "edges"
                THEN {<<from, k, r>> :
                        r \in {x \in 1..Len(net[to][from][k].records) :
                                  net[to][from][k].records[x].n = n}}
                ELSE {} :
                k \in 1..Len(net[to][from])} :
           from \in Hosts}

\* host to has constructed the edges of the record of source n
recordDelivered(to, n) ==
  /\ laidOut(to)
  /\ G2Lfound(to, n)
  /\ \E s \in slotsOf(to, G2L(to, n)) : graph[to][s] # <<>>

\* the record of owned source n of host h for column i, once appended, is
\* whole wherever it is, exists once (buffered, in flight or delivered), and
\* is out of the buffers after the drain of its round
appendedRecordSentOnce(h, n, i) ==
  LET to == rowPeerInColumn(h, i)
      whole == wholeRecord(n, i)
      buffered == recordsBuffered(h, n, i)
      inFlight == recordsInFlight(to, n)
  IN  /\ \A b \in buffered : sb[h][b[1]][i][b[2]] = whole
      /\ \A m \in inFlight : net[to][m[1]][m[2]].records[m[3]] = whole
      /\ IF passedNode(h, n) /\ Len(whole.gdst) > 0 /\ to # h
         THEN /\ pc[to] # "aborted" =>
                    Cardinality(buffered) + Cardinality(inFlight)
                      + (IF recordDelivered(to, n) THEN 1 ELSE 0) = 1
              /\ Cardinality(buffered) + Cardinality(inFlight) <= 1
              /\ drainedNode(h, n) => buffered = {}
         ELSE /\ buffered = {}
              /\ to # h => inFlight = {}

\* C29 Outbound flush: for each threshold, every record appended to a
\* per-thread outbound buffer is sent to its target exactly once, whole,
\* no later than the drain that follows the per-node loop of its round; no
\* record is left in a thread's buffer once loadEdgesFromFile has returned
\* and none is sent twice.
C29_OutboundFlush ==
  \A h \in Hosts :
     /\ (laidOut(h) /\ pc[h] # "aborted") =>
           \A n \in Nodes : isOwned(h, n) =>
              \A i \in Columns : appendedRecordSentOnce(h, n, i)
     /\ pc[h] \in {"receiveEdges", "constructed", "done"} =>
           \A t \in Threads, i \in Columns : sb[h][t][i] = <<>>

\* with a threshold that one record does not exceed, a host has returned
\* from loadEdgesFromFile and a buffer it sent holds a single record of one
\* edge (sent by the drain), still in flight
C29_Witness ==
  /\ edgePartitionSendBufSize = 6
  /\ \E h \in Hosts : \E to \in Hosts \ {h} :
        /\ pc[h] = "receiveEdges"
        /\ \E k \in 1..Len(net[to][h]) :
              /\ net[to][h][k].kind = "edges"
              /\ Len(net[to][h][k].records) = 1
              /\ Len(net[to][h][k].records[1].gdst) = 1

(***************************************************************************)
(* Layout step 2 without checkerboard.                                     *)
(***************************************************************************)
\* the sources step 2 of the layout of host id visits for round d and
\* column peer i
visitedSources(id, d, i) ==
  IF virtual2RealHost(leaderHostID(id, d) + i) = id THEN {}
  ELSE {rangeStart(leaderHostID(id, d) + i) + j - 1 :
          j \in 1..rangeSize(leaderHostID(id, d) + i)}

\* without checkerboard the else-if branch of step 2 is never entered: the
\* only row peer whose sources lie in the column of the host is the host
\* itself, which the loop skips; so no build aborts there
noInconsistencyCandidate ==
  ~columnBlocked =>
     /\ \A id \in Hosts, d \in Decomposed, i \in Columns :
           \A src \in visitedSources(id, d, i) : ~dummyCandidate(id, i, src)
     /\ \A id \in Hosts : fault[id] # "inconsistency"

(***************************************************************************)
(* Layout exit.                                                            *)
(***************************************************************************)
\* the bit of global id g is set in the merged hasIncomingEdge[0] of host h
mergedBitSet(h, g) == getColumnIndex(g) \in mergedIncoming(h).bits

\* g is a source of a row peer of h for which h was told a positive
\* out-degree (step 2 creates it whatever its bit says)
outgoingMirror(h, g) ==
  \E d \in Decomposed, i \in Columns :
     /\ virtual2RealHost(leaderHostID(h, d) + i) # h
     /\ g >= rangeStart(leaderHostID(h, d) + i)
     /\ g < rangeEnd(leaderHostID(h, d) + i)
     /\ numOutgoingEdges[h][d][i][g - rangeStart(leaderHostID(h, d) + i) + 1] > 0

positionInColumn(g) ==
  SumOver(LAMBDA v : IF getColumnHostIDOfBlock(v % numHosts) = getColumnHostID(g)
                     THEN rangeSize(v) ELSE 0,
          0, getHostID(g))
    + (g - rangeStart(getHostID(g)))

columnIndexIsPosition ==
  \A g \in Nodes :
     /\ getColumnIndex(g) = positionInColumn(g)
     /\ getColumnIndex(g) < columnBlockSize(getColumnHostID(g))
     /\ \A g2 \in Nodes \ {g} :
           getColumnHostID(g2) = getColumnHostID(g)
              => getColumnIndex(g2) # getColumnIndex(g)

\* C32 Column index is a position: once a host has run the inspection, which
\* sets the bit getColumnIndex(dst) for every edge it reads, getColumnIndex
\* maps any two distinct global ids with the same column peer to distinct
\* indices, the index is the position of the id in the block-ordered
\* concatenation of the ranges with that column peer, and it is smaller than
\* the size given to the hasIncomingEdge bitset of that column peer.
C32_ColumnIndexIsPosition ==
  (\E h \in Hosts : hasInspected(h)) => columnIndexIsPosition

\* the same for builds without decomposition
columnIndexUndecomposed ==
  (DecomposeFactor = 1 /\ \E h \in Hosts : hasInspected(h))
     => columnIndexIsPosition

(***************************************************************************)
(* Endpoints of constructed edges.                                         *)
(***************************************************************************)
\* no lookup of loadEdgesFromFile or processReceivedEdgeBuffer has failed on
\* host h, and every edge h has constructed sits in a slot of a local node
\* and points to a local node, both being the endpoints the file gives it
endpointsLocal(h) ==
  /\ fault[h] # "G2L"
  /\ \A s \in 1..Len(graph[h]) : \A k \in 1..Len(graph[h][s]) :
        LET e == graph[h][s][k].data
        IN  /\ G2Lfound(h, edgeList[e][1])
            /\ G2Lfound(h, edgeDestination(e))
            /\ nodeOfSlot(h, s) = G2L(h, edgeList[e][1])
            /\ graph[h][s][k].dst = G2L(h, edgeDestination(e))

\* C33 Endpoints are always local: for every edge constructed on a host,
\* read locally or taken from a received record, source and destination are
\* keys of the host's globalToLocalMap when the edge is constructed; no G2L
\* of edge loading ever fails.
C33_EndpointsLocal == \A h \in Hosts : endpointsLocal(h)

\* the same for builds without decomposition
endpointsLocalUndecomposed ==
  (DecomposeFactor = 1) => \A h \in Hosts : endpointsLocal(h)

(***************************************************************************)
(* Edge order and payload.                                                 *)
(***************************************************************************)
\* the writes of the slots of local node l of host h, in slot order, are in
\* the order of the file
inFileOrder(h, l) ==
  \A s1, s2 \in slotsOf(h, l) :
     s1 < s2 =>
        \A k1 \in 1..Len(graph[h][s1]), k2 \in 1..Len(graph[h][s2]) :
           graph[h][s1][k1].data < graph[h][s2][k2].data

\* the write w in a slot of local node l of host h is an edge of the file
\* from the global id of l, and its destination is the one the file pairs
\* with its data
pairedAsInFile(h, l, w) ==
  /\ w.data \in Edges
  /\ edgeList[w.data][1] = L2G(h, l)
  /\ w.dst \in LocalIDs(h)
  /\ L2G(h, w.dst) = edgeDestination(w.data)

reset_bitset(id, syncType) ==
  LET beginMaster == index[id].beginMaster
      endMaster == index[id].beginMaster + index[id].numOwned
  IN  IF index[id].numOwned # 0
      THEN IF syncType = "syncBroadcast"
           THEN << <<beginMaster, endMaster - 1>> >>
           ELSE (IF beginMaster > 0 THEN << <<0, beginMaster - 1>> >> ELSE <<>>)
                \o (IF endMaster < index[id].numNodes
                    THEN << <<endMaster, index[id].numNodes - 1>> >> ELSE <<>>)
      ELSE <<>>

\* the pairs (begin, end) getMirrorRanges returns, the end exclusive
getMirrorRanges(id) ==
  LET beginMaster == index[id].beginMaster
      endMaster == index[id].beginMaster + index[id].numOwned
  IN  (IF beginMaster > 0 THEN << <<0, beginMaster>> >> ELSE <<>>)
      \o (IF endMaster < index[id].numNodes
          THEN << <<endMaster, index[id].numNodes>> >> ELSE <<>>)

\* the local ids reset_bitset resets
resetIDs(h, syncType) ==
  UNION {reset_bitset(h, syncType)[c][1]..reset_bitset(h, syncType)[c][2] :
           c \in 1..Len(reset_bitset(h, syncType))}

\* the local ids the mirror ranges cover
mirrorRangeIDs(h) ==
  UNION {getMirrorRanges(h)[c][1]..(getMirrorRanges(h)[c][2] - 1) :
           c \in 1..Len(getMirrorRanges(h))}

\* the master window [beginMaster, beginMaster + numOwned)
masterWindowIDs(h) ==
  index[h].beginMaster..(index[h].beginMaster + index[h].numOwned - 1)

resetAgrees(h) ==
  /\ resetIDs(h, "syncReduce") = mirrorRangeIDs(h)
  /\ mirrorRangeIDs(h) = LocalIDs(h) \ masterWindowIDs(h)
  /\ resetIDs(h, "syncBroadcast") = masterWindowIDs(h)

\* C35 Mirror ranges and bitset reset agree: on every constructed host,
\* reset_bitset(Reduce) resets exactly the local ids getMirrorRanges covers,
\* which are all ids of [0, numNodes) outside the master window, and
\* reset_bitset(Broadcast) resets exactly the master window; also on a host
\* with numOwned = 0 and numNodes > 0.
C35_ResetAgreesWithMirrorRanges == \A h \in Hosts : finished(h) => resetAgrees(h)

\* the same on the hosts that own a node
resetAgreesOnOwners ==
  \A h \in Hosts : (finished(h) /\ index[h].numOwned # 0) => resetAgrees(h)

(***************************************************************************)
(* Sharing hosts.                                                          *)
(***************************************************************************)
\* host h shares nodes with p: a non-empty mirror list or master list
sharesWith(h, p) == Len(mirrorNodes[h][p]) > 0 \/ Len(masterNodes[h][p]) > 0

gridNeighbours(h, p) == sameRow(h, p) \/ sameColumn(h, p)

\* the hosts the two loops of fillMirrorNodes push to, for real host id and
\* round d on the grid of H hosts with C columns and R rows of virtual
\* hosts, without checkerboard: the row peers leaderHostID + i of the
\* virtual host id + d*H, and the column peers i*C + column of it, each
\* folded to a real host
pushTargetsAreNeighbours(H, D, R, C) ==
  \A id \in 0..(H - 1), d \in 0..(D - 1) :
     /\ \A i \in 0..(C - 1) :
           (((((id + (d * H)) \div C) * C) + i) % H) \div C = id \div C
     /\ \A i \in 0..(R - 1) :
           (((i * C) + ((id + (d * H)) % C)) % H) % C = id % C

\* every grid of up to MaxFactorizedHosts hosts and MaxDecomposeFactor rounds
neighbourTable ==
  \A H \in 1..MaxFactorizedHosts, D \in 1..MaxDecomposeFactor, more \in BOOLEAN :
     pushTargetsAreNeighbours(H, D, factorizeHosts(H, D, more).numRowHosts,
                              factorizeHosts(H, D, more).numColumnHosts)

\* C36 Sharing hosts are grid neighbours: without checkerboard, whenever
\* mirrorNodes[p] or masterNodes[p] is non-empty on a host, p lies in the grid
\* row or the grid column of that host, so the assertion of the writeAny and
\* readAny cases of isNotCommunicationPartner holds and the Any case reports
\* that communication is needed; the hosts fillMirrorNodes pushes to are grid
\* neighbours on every grid, for every DecomposeFactor.
C36_SharingHostsAreNeighbours ==
  /\ ~columnBlocked =>
        \A h, p \in Hosts :
           sharesWith(h, p) =>
              /\ gridNeighbours(h, p)
              /\ ~isNotCommunicationPartner(h, p, "syncReduce", "writeAny",
                                            "readAny", transposed[h])
              /\ ~isNotCommunicationPartner(h, p, "syncBroadcast", "writeAny",
                                            "readAny", transposed[h])
  /\ neighbourTable

\* a constructed 2 x 2 grid without checkerboard: a host shares nodes with a
\* host of its row and with a host of its column, and none with the fourth
C36_Witness ==
  /\ ~columnBlocked
  /\ done
  /\ numHosts = 4
  /\ \E h, p, q, x \in Hosts :
        /\ p # h /\ sameRow(h, p) /\ sharesWith(h, p)
        /\ q # h /\ sameColumn(h, q) /\ sharesWith(h, q)
        /\ ~gridNeighbours(h, x) /\ ~sharesWith(h, x)

\* step 2 on the grid of H hosts with C columns, without checkerboard: a
\* visited row peer leaderHostID + i (one that does not fold to the host)
\* never has the column of the host as the column peer of its block
noCandidateOnGrid(H, D, C) ==
  \A id \in 0..(H - 1), d \in 0..(D - 1), i \in 0..(C - 1) :
     LET hostID == (((id + (d * H)) \div C) * C) + i
     IN  hostID % H # id => (id + (i * H)) % C # (hostID % H) % C

\* every grid of up to MaxFactorizedHosts hosts and MaxDecomposeFactor rounds
candidateTable ==
  \A H \in 1..MaxFactorizedHosts, D \in 1..MaxDecomposeFactor, more \in BOOLEAN :
     noCandidateOnGrid(H, D, factorizeHosts(H, D, more).numColumnHosts)

\* without checkerboard no host counts a dummy node or leaves the build with
\* the inconsistency warning
noDummyCreated ==
  ~columnBlocked =>
     \A h \in Hosts :
        index[h].dummyOutgoingNodes = 0 /\ fault[h] # "inconsistency"

\* C37 No dummies without checkerboard: with columnBlocked = false the
\* dummy-outgoing condition of step 2 of the layout is false for every source
\* the step visits, on every host and in every round; no node is created as
\* a dummy, dummyOutgoingNodes stays 0 and no build aborts with the
\* inconsistency warning; on every grid, for every DecomposeFactor, a row
\* peer in another column never has the column of the host as column peer.
C37_NoDummiesWithoutCheckerboard ==
  /\ noInconsistencyCandidate
  /\ noDummyCreated
  /\ candidateTable

\* a host laid out without checkerboard whose step 2 visited a source of a
\* row peer with no out-edge towards it: the condition was evaluated, and
\* no dummy was created
C37_Witness ==
  /\ ~columnBlocked
  /\ \E h \in Hosts, d \in Decomposed, i \in Columns :
        /\ laidOut(h)
        /\ index[h].dummyOutgoingNodes = 0
        /\ \E src \in visitedSources(h, d, i) :
              /\ numOutgoingEdges[h][d][i]
                   [src - rangeStart(leaderHostID(h, d) + i) + 1] = 0
              /\ mergedBitSet(h, src)

(***************************************************************************)
(* The buffered network interface (src/exp/src/net/buffered.cpp).          *)
(***************************************************************************)
COMM_MIN == 1400

\* the receive functions an application registers, and the payloads it sends
RecvFuncs == {1, 2}
Payloads == {<<>>, <<9, 0>>}

\* an integer as w little-endian bytes (the unions of lines 49, 57, 86)
RECURSIVE littleEndian(_, _)
littleEndian(n, w) ==
  IF w = 0 THEN <<>> ELSE <<n % 256>> \o littleEndian(n \div 256, w - 1)

RECURSIVE fromLittleEndian(_)
fromLittleEndian(bytes) ==
  IF bytes = <<>> THEN 0
  ELSE bytes[1] + 256 * fromLittleEndian(Tail(bytes))

\* SendBuffer after serialize_header: the function pointer, then the payload
serialize_header(recv, payload) == littleEndian(recv, 8) \o payload

\* sendBuffer::add: the length of the buffer in four bytes, then the buffer
sendBuffer_add(data, b) == data \o littleEndian(Len(b), 4) \o b

\* sendBuffer::ready; elapsed tells whether COMM_DELAY has passed
sendBuffer_ready(sd, elapsed) ==
  IF sd.data = <<>> THEN FALSE
  ELSE IF sd.urgent THEN TRUE
  ELSE IF Len(sd.data) > COMM_MIN THEN TRUE
  ELSE elapsed

\* recvBuffer::nextMsg: the offsets of the two iterators from data.begin()
nextMsg(data) ==
  IF data = <<>> THEN [first |-> 0, last |-> 0]
  ELSE [first |-> 4, last |-> 4 + fromLittleEndian(SubSeq(data, 1, 4))]

\* recvBuffer::popMsg
popMsg(data) ==
  SubSeq(data, 4 + fromLittleEndian(SubSeq(data, 1, 4)) + 1, Len(data))

\* recvBuffer::add
recvBuffer_add(data, buf) == data \o buf

\* what reading a range of invalidated iterators can give besides the bytes
\* that were there: other bytes of the same length
garbage(len) ==
  { [k \in 1..len |-> 0], [k \in 1..len |-> IF k = 1 THEN 1 ELSE 0] }

netRunning == netFault = ""

\* the partitioner does not take part
partitionerIdle == UNCHANGED <<inputs, hostState, savedState>>

(***************************************************************************)
(* Constructor and destructor (the constructing thread).                   *)
(***************************************************************************)
\* lines 150-151: ready = 0; the worker thread is started
constructor_spawn ==
  /\ netRunning
  /\ mainPc = "new"
  /\ ready' = 0
  /\ workerPc' = [at |-> "start", i |-> 0]
  /\ mainPc' = "wait"
  /\ UNCHANGED <<recvData, recvLock, sendData, wire, reader, sentTo,
                 dispatched, netFault>>
  /\ partitionerIdle

\* lines 152-154: once ready is 1, sendData gets Num empty buffers
constructor_size ==
  /\ netRunning
  /\ mainPc = "wait"
  /\ ready = 1
  /\ sendData' = [k \in 1..Num |-> [data |-> <<>>, urgent |-> FALSE]]
  /\ mainPc' = "sized"
  /\ UNCHANGED <<ready, workerPc, recvData, recvLock, wire, reader, sentTo,
                 dispatched, netFault>>
  /\ partitionerIdle

\* line 155
constructor_publish ==
  /\ netRunning
  /\ mainPc = "sized"
  /\ ready' = 2
  /\ mainPc' = "running"
  /\ UNCHANGED <<workerPc, recvData, recvLock, sendData, wire, reader,
                 sentTo, dispatched, netFault>>
  /\ partitionerIdle

\* line 159; the application has returned from its calls
destructor_stop ==
  /\ netRunning
  /\ mainPc = "running"
  /\ \A t \in Threads : reader[t].at = "idle"
  /\ ready' = 3
  /\ mainPc' = "joining"
  /\ UNCHANGED <<workerPc, recvData, recvLock, sendData, wire, reader,
                 sentTo, dispatched, netFault>>
  /\ partitionerIdle

\* lines 160-161: join returns when the worker thread has ended
destructor_join ==
  /\ netRunning
  /\ mainPc = "joining"
  /\ workerPc.at = "done"
  /\ mainPc' = "destroyed"
  /\ UNCHANGED <<ready, workerPc, recvData, recvLock, sendData, wire, reader,
                 sentTo, dispatched, netFault>>
  /\ partitionerIdle

(***************************************************************************)
(* The worker thread.                                                      *)
(***************************************************************************)
\* lines 119-120
workerThread_start ==
  /\ netRunning
  /\ workerPc.at = "start"
  /\ ready' = 1
  /\ workerPc' = [workerPc EXCEPT !.at = "spin"]
  /\ UNCHANGED <<mainPc, recvData, recvLock, sendData, wire, reader, sentTo,
                 dispatched, netFault>>
  /\ partitionerIdle

\* line 121: the loop is left only when ready is read as 2
workerThread_spin ==
  /\ netRunning
  /\ workerPc.at = "spin"
  /\ ready = 2
  /\ workerPc' = [workerPc EXCEPT !.at = "loop"]
  /\ UNCHANGED <<ready, mainPc, recvData, recvLock, sendData, wire, reader,
                 sentTo, dispatched, netFault>>
  /\ partitionerIdle

\* line 122
workerThread_test ==
  /\ netRunning
  /\ workerPc.at = "loop"
  /\ workerPc' = [workerPc EXCEPT !.at = IF ready # 3 THEN "dequeue" ELSE "done"]
  /\ UNCHANGED <<ready, mainPc, recvData, recvLock, sendData, wire, reader,
                 sentTo, dispatched, netFault>>
  /\ partitionerIdle

\* netio->dequeue(): the next vector that has arrived for this host, or the
\* empty vector when none has arrived yet
netio_dequeue == {<<>>} \cup (IF wire[ID] # <<>> THEN {Head(wire[ID])} ELSE {})

\* lines 123-129: one turn of the do loop.  recvBuffer::add inserts at the
\* end of the deque, which invalidates the iterators a reader holds.
workerThread_dequeue ==
  /\ netRunning
  /\ workerPc.at = "dequeue"
  /\ \E rdata \in netio_dequeue :
        IF rdata = <<>>
          THEN /\ workerPc' = [at |-> "send", i |-> 0]
               /\ UNCHANGED <<recvData, wire, reader>>
          ELSE /\ recvData' = recvBuffer_add(recvData, rdata)
               /\ wire' = [wire EXCEPT ![ID] = Tail(@)]
               /\ reader' = [t \in Threads |->
                    IF reader[t].at = "copy"
                      THEN [reader[t] EXCEPT !.stale = TRUE]
                      ELSE reader[t]]
               /\ UNCHANGED workerPc
  /\ UNCHANGED <<ready, mainPc, recvLock, sendData, sentTo, dispatched,
                 netFault>>
  /\ partitionerIdle

\* netio->enqueue(i, data): the vector is handed over whole
netio_enqueue(w, i, data) == [w EXCEPT ![i] = Append(@, data)]

\* lines 130-138: one turn of the for loop
workerThread_send ==
  /\ netRunning
  /\ workerPc.at = "send"
  /\ IF workerPc.i < Len(sendData)
       THEN \E elapsed \in BOOLEAN :
              LET i == workerPc.i
                  sd == sendData[i + 1]
              IN  /\ IF sendBuffer_ready(sd, elapsed)
                       THEN /\ wire' = netio_enqueue(wire, i, sd.data)
                            /\ sendData' = [sendData EXCEPT ![i + 1] =
                                              [data |-> <<>>, urgent |-> FALSE]]
                       ELSE UNCHANGED <<wire, sendData>>
                  /\ workerPc' = [workerPc EXCEPT !.i = i + 1]
       ELSE /\ workerPc' = [at |-> "loop", i |-> 0]
            /\ UNCHANGED <<wire, sendData>>
  /\ UNCHANGED <<ready, mainPc, recvData, recvLock, reader, sentTo,
                 dispatched, netFault>>
  /\ partitionerIdle

(***************************************************************************)
(* The application: send, flush, handleReceives.                           *)
(***************************************************************************)
\* the calls of send() so far, to the destinations 0..d
RECURSIVE sentCount(_)
sentCount(d) == IF d < 0 THEN 0 ELSE Len(sentTo[d]) + sentCount(d - 1)

\* lines 164-169 with isend (111-116)
send(dest, recv, payload) ==
  /\ netRunning
  /\ mainPc = "running"
  /\ sentCount(Num - 1) < MaxMessages
  /\ sendData' = [sendData EXCEPT ![dest + 1].data =
                    sendBuffer_add(@, serialize_header(recv, payload))]
  /\ sentTo' = [sentTo EXCEPT ![dest] = Append(@, [fp |-> recv, payload |-> payload])]
  /\ UNCHANGED <<ready, mainPc, workerPc, recvData, recvLock, wire, reader,
                 dispatched, netFault>>
  /\ partitionerIdle

\* lines 171-174
flush ==
  /\ netRunning
  /\ mainPc = "running"
  /\ sendData' = [k \in 1..Len(sendData) |-> [sendData[k] EXCEPT !.urgent = TRUE]]
  /\ UNCHANGED <<ready, mainPc, workerPc, recvData, recvLock, wire, reader,
                 sentTo, dispatched, netFault>>
  /\ partitionerIdle

\* lines 178-181: try_lock, then nextMsg under the lock of recvData.  With
\* the lock taken by another thread, or with no message, the call returns.
handleReceives_nextMsg(t) ==
  /\ netRunning
  /\ mainPc = "running"
  /\ reader[t].at = "idle"
  /\ recvLock = NoThread
  /\ LET p == nextMsg(recvData)
     IN  IF p.first # p.last
           THEN /\ recvLock' = t
                /\ reader' = [reader EXCEPT ![t] =
                     [at |-> "copy", first |-> p.first, last |-> p.last,
                      stale |-> FALSE, buf |-> <<>>]]
           ELSE UNCHANGED <<recvLock, reader>>
  /\ UNCHANGED <<ready, mainPc, workerPc, recvData, sendData, wire, sentTo,
                 dispatched, netFault>>
  /\ partitionerIdle

\* line 183: the bytes between the two iterators are copied, without the
\* lock of recvData.  Iterators that an insert has invalidated give the
\* bytes, other bytes, or a crash.
handleReceives_copy(t) ==
  /\ netRunning
  /\ reader[t].at = "copy"
  /\ LET r == reader[t]
         bytes == SubSeq(recvData, r.first + 1, r.last)
     IN  IF ~r.stale
           THEN /\ reader' = [reader EXCEPT ![t] = [r EXCEPT !.at = "pop", !.buf = bytes]]
                /\ UNCHANGED netFault
           ELSE \/ /\ \E got \in {bytes} \cup garbage(r.last - r.first) :
                        reader' = [reader EXCEPT ![t] = [r EXCEPT !.at = "pop", !.buf = got]]
                   /\ UNCHANGED netFault
                \/ /\ netFault' = "invalidated iterator"
                   /\ UNCHANGED reader
  /\ UNCHANGED <<ready, mainPc, workerPc, recvData, recvLock, sendData, wire,
                 sentTo, dispatched>>
  /\ partitionerIdle

\* line 186
handleReceives_popMsg(t) ==
  /\ netRunning
  /\ reader[t].at = "pop"
  /\ recvData' = popMsg(recvData)
  /\ reader' = [reader EXCEPT ![t].at = "call"]
  /\ UNCHANGED <<ready, mainPc, workerPc, recvLock, sendData, wire, sentTo,
                 dispatched, netFault>>
  /\ partitionerIdle

\* lines 187-192: the function pointer is read from the copy and called on
\* the rest of it; the lock guard of recvLock ends with the block
handleReceives_call(t) ==
  /\ netRunning
  /\ reader[t].at = "call"
  /\ LET fp == fromLittleEndian(SubSeq(reader[t].buf, 1, 8))
         rest == SubSeq(reader[t].buf, 9, Len(reader[t].buf))
     IN  IF fp = 0
           THEN /\ netFault' = "assert(fp)"
                /\ UNCHANGED <<dispatched, recvLock, reader>>
           ELSE /\ dispatched' = Append(dispatched, [fp |-> fp, payload |-> rest])
                /\ recvLock' = NoThread
                /\ reader' = [reader EXCEPT ![t] = idleReader]
                /\ UNCHANGED netFault
  /\ UNCHANGED <<ready, mainPc, workerPc, recvData, sendData, wire, sentTo>>
  /\ partitionerIdle

mainStep ==
  \/ constructor_spawn
  \/ constructor_size
  \/ constructor_publish
  \/ destructor_stop
  \/ destructor_join

workerStep ==
  \/ workerThread_start
  \/ workerThread_spin
  \/ workerThread_test
  \/ workerThread_dequeue
  \/ workerThread_send

applicationStep ==
  \/ \E dest \in Dests, recv \in RecvFuncs, payload \in Payloads :
        send(dest, recv, payload)
  \/ flush
  \/ \E t \in Threads :
        \/ handleReceives_nextMsg(t)
        \/ handleReceives_copy(t)
        \/ handleReceives_popMsg(t)
        \/ handleReceives_call(t)

\* the partitioner is left as one idle build while the network runs
BufferedInit ==
  /\ Init
  /\ numHosts = 1
  /\ DecomposeFactor = 1
  /\ ~columnBlocked
  /\ ~transpose
  /\ numGlobalNodes = 3
  /\ edgePartitionSendBufSize = 0

BufferedNext == mainStep \/ workerStep \/ applicationStep

BufferedSpec == BufferedInit /\ [][BufferedNext]_vars

\* the constructing thread and the worker thread are scheduled in the end
\* whenever they can take a step; the application need not call again
BufferedFairSpec == BufferedSpec /\ WF_vars(mainStep) /\ WF_vars(workerStep)

(***************************************************************************)
(* Properties of the buffered network interface.                           *)
(***************************************************************************)
\* a thread holds the range nextMsg() gave it and has not yet popped the message
holdsRange(t) == reader[t].at \in {"copy", "pop"}

\* this step is a recvData.add of the worker thread
workerAdds == Len(recvData') > Len(recvData)

\* C40: receive isolation.  While a thread in handleReceives holds the byte
\* range that nextMsg() returned, and until it has copied and popped that
\* message, no step of the worker thread adds to the receive queue.
C40_ReceiveIsolation == [][(\E t \in Threads : holdsRange(t)) => ~workerAdds]_vars

\* the same, only for the time after the copy has been made
isolatedAfterCopy == [][(\E t \in Threads : reader[t].at = "pop") => ~workerAdds]_vars

\* no copy is ever made through iterators that an add has invalidated
noStaleCopy == \A t \in Threads : ~reader[t].stale

\* the message a buffer carries: the function pointer and the payload
messageOf(buf) ==
  [fp |-> fromLittleEndian(SubSeq(buf, 1, 8)), payload |-> SubSeq(buf, 9, Len(buf))]

Malformed == [fp |-> 0, payload |-> <<>>]

\* the messages framed in a byte sequence, in order
RECURSIVE framedIn(_)
framedIn(bytes) ==
  IF bytes = <<>> THEN <<>>
  ELSE IF Len(bytes) < 4 THEN <<Malformed>>
  ELSE LET n == fromLittleEndian(SubSeq(bytes, 1, 4))
       IN  IF n < 8 \/ Len(bytes) < 4 + n THEN <<Malformed>>
           ELSE <<messageOf(SubSeq(bytes, 5, 4 + n))>>
                  \o framedIn(SubSeq(bytes, 4 + n + 1, Len(bytes)))

RECURSIVE joined(_)
joined(vectors) == IF vectors = <<>> THEN <<>> ELSE Head(vectors) \o joined(Tail(vectors))

\* the bytes for destination d that are with netio or still in sendData
onTheWay(d) == joined(wire[d]) \o (IF sendData = <<>> THEN <<>> ELSE sendData[d + 1].data)

\* the messages that were copied and popped and whose function is not yet called
RECURSIVE beingCalled(_)
beingCalled(t) ==
  IF t < 0 THEN <<>>
  ELSE beingCalled(t - 1) \o (IF reader[t].at = "call" THEN <<messageOf(reader[t].buf)>> ELSE <<>>)

\* the copy a thread is about to pop is the first message of the queue
copiedWhole(t) ==
  reader[t].at = "pop" =>
    /\ Len(recvData) >= reader[t].last
    /\ reader[t].last = 4 + fromLittleEndian(SubSeq(recvData, 1, 4))
    /\ reader[t].buf = SubSeq(recvData, 5, reader[t].last)

framedInOrder ==
  /\ \A d \in Dests \ {ID} : framedIn(onTheWay(d)) = sentTo[d]
  /\ dispatched \o beingCalled(MaxThreads - 1) \o framedIn(recvData) \o framedIn(onTheWay(ID)) = sentTo[ID]
  /\ \A t \in Threads : copiedWhole(t)

\* C38: FIFO framing.  The messages passed to send() for a destination are
\* framed as a four-byte length and the buffer, appended in call order; on
\* the receiving host every handleReceives call dispatches at most one whole
\* message, the first of the receive queue, and removes exactly that one:
\* what was dispatched, what is being dispatched, what waits in the receive
\* queue and what is on the way are, in this order, the messages sent, with
\* none split, merged, reordered or dispatched twice, also with several
\* threads in handleReceives.
C38_FifoFraming == framedInOrder

\* this step copies a message through iterators that an add has invalidated
staleCopyStep == \E t \in Threads : reader[t].at = "copy" /\ reader[t].stale /\ reader'[t].at = "pop"

\* every step but a copy through invalidated iterators keeps the framing
framedButForStaleCopy == [][(framedInOrder /\ ~staleCopyStep) => framedInOrder']_vars

workerTerminated == workerPc.at = "done"

\* C39: shutdown.  Once the destructor has set ready to 3 the worker thread
\* eventually leaves its loops and ends, so that join returns, whatever the
\* worker had observed of ready before; and the worker reads sendData only
\* after the constructor has sized it to Num entries.
C39_WorkerTerminates == /\ (ready = 3) ~> workerTerminated
                        /\ [](workerPc.at = "send" => Len(sendData) = Num)

\* the worker thread is past the wait for ready == 2 when the destructor
\* sets ready to 3
stoppedAfterStart == (ready = 3 /\ workerPc.at # "spin") ~> (mainPc = "destroyed")

\* the worker thread reads sendData only once it is sized
sendDataSizedForWorker == workerPc.at = "send" => Len(sendData) = Num

\* ready never becomes 3 while the worker thread still waits for ready == 2
notStoppedInSpin == ~(ready = 3 /\ workerPc.at = "spin")

====
